---- MODULE Spec2Model ----
(***************************************************************************)
(* ChatGPT Token Counter: the token estimator, the cost calculator, the    *)
(* model detector and the conversation accounting of the content script    *)
(* (ChatGPTTokenTracker), with the browser storage it reads and writes.    *)
(*                                                                         *)
(* A text is a sequence of one-character strings.  Money is counted in     *)
(* units of 10^-7 USD, so that (tokens / 1000) * costPer1k is an integer:  *)
(* the prices of the table are in units of 10^-4 USD per 1000 tokens.      *)
(***************************************************************************)
EXTENDS Integers, Sequences, FiniteSets, TLC

(***************************************************************************)
(* Characters and the JavaScript string operations the code uses.          *)
(***************************************************************************)
Whitespace == {" ", "\t", "\n"}

LowerLetters ==
  <<"a","b","c","d","e","f","g","h","i","j","k","l","m",
    "n","o","p","q","r","s","t","u","v","w","x","y","z">>

UpperLetters ==
  <<"A","B","C","D","E","F","G","H","I","J","K","L","M",
    "N","O","P","Q","R","S","T","U","V","W","X","Y","Z">>

DigitChars == <<"0","1","2","3","4","5","6","7","8","9">>

Range(s) == {s[i] : i \in DOMAIN s}

\* the class \w of a JavaScript regular expression
WordChars == Range(LowerLetters) \cup Range(UpperLetters) \cup Range(DigitChars) \cup {"_"}

\* String.prototype.toLowerCase, one character
ToLowerChar(c) ==
  IF c \in Range(UpperLetters)
    THEN LowerLetters[CHOOSE i \in DOMAIN UpperLetters : UpperLetters[i] = c]
    ELSE c

toLowerCase(text) == [i \in DOMAIN text |-> ToLowerChar(text[i])]

\* String.prototype.includes
includes(text, marker) ==
  \E i \in 0..(Len(text) - Len(marker)) :
    \A j \in 1..Len(marker) : text[i + j] = marker[j]

RECURSIVE TrimLeft(_)
TrimLeft(text) ==
  IF text = <<>> THEN <<>>
  ELSE IF Head(text) \in Whitespace THEN TrimLeft(Tail(text)) ELSE text

RECURSIVE TrimRight(_)
TrimRight(text) ==
  IF text = <<>> THEN <<>>
  ELSE IF text[Len(text)] \in Whitespace
    THEN TrimRight(SubSeq(text, 1, Len(text) - 1)) ELSE text

\* a trim of the left end alone
trim_LeftOnly(text) == TrimLeft(text)

\* String.prototype.trim
trim(text) == TrimRight(TrimLeft(text))

\* text.replace(/\s+/g, ' ')
RECURSIVE CollapseWhitespace(_)
CollapseWhitespace(text) ==
  IF text = <<>> THEN <<>>
  ELSE IF Head(text) \in Whitespace
    THEN <<" ">> \o CollapseWhitespace(TrimLeft(text))
    ELSE <<Head(text)>> \o CollapseWhitespace(Tail(text))

\* text.split(/\s+/).filter(word => word.length > 0).length
WordCount(text) ==
  Cardinality({i \in DOMAIN text :
     /\ text[i] \notin Whitespace
     /\ (i = 1 \/ text[i - 1] \in Whitespace)})

\* (text.match(/[^\w\s]/g) || []).length
SpecialCharCount(text) ==
  Cardinality({i \in DOMAIN text : text[i] \notin WordChars \cup Whitespace})

\* Math.ceil(a / b) for integers a >= 0, b > 0
CeilDiv(a, b) == (a + b - 1) \div b

Max(a, b) == IF a >= b THEN a ELSE b

(***************************************************************************)
(* GPTTokenizer                                                            *)
(***************************************************************************)
ModelIds == {"gpt-4", "gpt-4o", "gpt-4-turbo", "gpt-3.5-turbo"}

modelConfigs ==
  [m \in ModelIds |->
     CASE m = "gpt-4" ->
            [avgCharsPerToken |-> 4, maxTokens |-> 8192,
             costPer1kInput |-> 300, costPer1kOutput |-> 600]
       [] m = "gpt-4o" ->
            [avgCharsPerToken |-> 4, maxTokens |-> 128000,
             costPer1kInput |-> 50, costPer1kOutput |-> 150]
       [] m = "gpt-4-turbo" ->
            [avgCharsPerToken |-> 4, maxTokens |-> 128000,
             costPer1kInput |-> 100, costPer1kOutput |-> 300]
       [] m = "gpt-3.5-turbo" ->
            [avgCharsPerToken |-> 4, maxTokens |-> 4096,
             costPer1kInput |-> 15, costPer1kOutput |-> 20]]

defaultModel == "gpt-4o"

\* NaN; no number that the code computes from numbers is negative
NaN == -1

\* the names that every object inherits from Object.prototype: a lookup
\* modelConfigs[name] finds the inherited value, which is truthy
PrototypeKeys ==
  {"constructor", "toString", "toLocaleString", "valueOf", "hasOwnProperty",
   "isPrototypeOf", "propertyIsEnumerable", "__proto__"}

\* the fields of a configuration read from an inherited value: each is
\* undefined, which arithmetic turns into NaN
InheritedProperty ==
  [avgCharsPerToken |-> NaN, maxTokens |-> NaN,
   costPer1kInput |-> NaN, costPer1kOutput |-> NaN]

\* this.modelConfigs[model] || this.modelConfigs[this.defaultModel]
getModelConfig(model) ==
  IF model \in ModelIds THEN modelConfigs[model]
  ELSE IF model \in PrototypeKeys THEN InheritedProperty
  ELSE modelConfigs[defaultModel]

\* words.length * 1.3, rounded down
CeilTimes13_Floor(n) == (13 * n) \div 10

\* words.length * 1.3, rounded up
CeilTimes13(n) == CeilDiv(13 * n, 10)

\* a surcharge of one token for an odd number of special characters
CeilHalf_Parity(n) == n % 2

\* specialChars * 0.5, rounded up
CeilHalf(n) == CeilDiv(n, 2)

encode(text, model) ==
  IF text = <<>> THEN 0
  ELSE
    LET config == getModelConfig(model)
        normalizedText == CollapseWhitespace(trim(text))
        words == WordCount(normalizedText)
        specialChars == SpecialCharCount(normalizedText)
        charBasedEstimate ==
          IF config.avgCharsPerToken = NaN THEN NaN
          ELSE CeilDiv(Len(normalizedText), config.avgCharsPerToken)
        wordBasedEstimate == CeilTimes13(words)
        specialCharTokens == CeilHalf(specialChars)
    IN IF charBasedEstimate = NaN THEN NaN
       ELSE Max(charBasedEstimate, wordBasedEstimate + specialCharTokens)

\* encode on a value of any type: line 47 returns 0 unless typeof text is
\* 'string'; value.kind is the result of typeof
encodeValue(value, model) ==
  IF value.kind # "string" THEN 0 ELSE encode(value.text, model)

\* a cost rounded to the ten-thousandth of a dollar
calculateCost_Rounded(inputTokens, outputTokens, model) ==
  LET config == getModelConfig(model)
  IN ((inputTokens * config.costPer1kInput + outputTokens * config.costPer1kOutput + 500)
        \div 1000) * 1000

\* a cost charged for every thousand tokens begun
calculateCost_PerThousand(inputTokens, outputTokens, model) ==
  LET config == getModelConfig(model)
  IN CeilDiv(inputTokens, 1000) * 1000 * config.costPer1kInput
       + CeilDiv(outputTokens, 1000) * 1000 * config.costPer1kOutput

calculateCost(inputTokens, outputTokens, model) ==
  LET config == getModelConfig(model)
      inputCost == IF config.costPer1kInput = NaN THEN NaN
                   ELSE inputTokens * config.costPer1kInput
      outputCost == IF config.costPer1kOutput = NaN THEN NaN
                    ELSE outputTokens * config.costPer1kOutput
  IN IF inputCost = NaN \/ outputCost = NaN THEN NaN ELSE inputCost + outputCost

\* is a value truthy: a string that is not empty, an object
Truthy(value) ==
  IF value.kind = "string" THEN value.text # <<>> ELSE value.kind = "object"

\* a sum of two numbers, which is NaN when one of them is
Plus(a, b) == IF a = NaN \/ b = NaN THEN NaN ELSE a + b

\* what one turn of the loop of encodeChat adds to totalTokens: nothing for
\* a message that is null or no object
ChatMessageTokens(message, model) ==
  IF message.kind # "object" THEN 0
  ELSE
    LET roleTokens == IF Truthy(message.role)
                        THEN encodeValue(message.role, model) ELSE 0
        contentTokens == IF Truthy(message.content)
                           THEN encodeValue(message.content, model) ELSE 0
        nameTokens == IF Truthy(message.name)
                        THEN Plus(encodeValue(message.name, model), 1) ELSE 0
    IN Plus(Plus(Plus(4, roleTokens), contentTokens), nameTokens)

RECURSIVE ChatLoop(_, _, _)
ChatLoop(totalTokens, items, model) ==
  IF items = <<>> THEN totalTokens
  ELSE ChatLoop(Plus(totalTokens, ChatMessageTokens(Head(items), model)),
                Tail(items), model)

encodeChat(messages, model) ==
  IF messages.kind # "array" THEN 0
  ELSE Plus(ChatLoop(4, messages.items, model), 2)

Marker4o == <<"g","p","t","-","4","o">>
Marker4TurboDash == <<"g","p","t","-","4","-","t","u","r","b","o">>
Marker4TurboSpace == <<"g","p","t","-","4"," ","t","u","r","b","o">>
Marker4 == <<"g","p","t","-","4">>
Marker35 == <<"g","p","t","-","3",".","5">>
Marker35Turbo == <<"g","p","t","-","3",".","5","-","t","u","r","b","o">>

\* a detection that tests the bare generation number first
detectModel_GenericFirst(text) ==
  LET lowerText == toLowerCase(text)
  IN IF includes(lowerText, Marker4o) THEN "gpt-4o"
     ELSE IF includes(lowerText, Marker4) THEN "gpt-4"
     ELSE IF includes(lowerText, Marker4TurboDash) \/ includes(lowerText, Marker4TurboSpace)
       THEN "gpt-4-turbo"
     ELSE IF includes(lowerText, Marker35) \/ includes(lowerText, Marker35Turbo)
       THEN "gpt-3.5-turbo"
     ELSE defaultModel

detectModel(text) ==
  LET lowerText == toLowerCase(text)
  IN IF includes(lowerText, Marker4o) THEN "gpt-4o"
     ELSE IF includes(lowerText, Marker4TurboDash) \/ includes(lowerText, Marker4TurboSpace)
       THEN "gpt-4-turbo"
     ELSE IF includes(lowerText, Marker4) THEN "gpt-4"
     ELSE IF includes(lowerText, Marker35) \/ includes(lowerText, Marker35Turbo)
       THEN "gpt-3.5-turbo"
     ELSE defaultModel

\* how a call ends: with a value, or with the TypeError of a method call
\* on a value that has no such method
Returned(value) == [threw |-> FALSE, value |-> value]

TypeError == [threw |-> TRUE, value |-> "TypeError"]

\* detectModel called with any value: text.toLowerCase is a function for a
\* string alone
detectModelValue(value) ==
  IF value.kind = "string" THEN Returned(detectModel(value.text)) ELSE TypeError

(***************************************************************************)
(* Values kept in memory and in chrome.storage.                            *)
(*                                                                         *)
(* A conversation id conv_<time>_<random> is modelled by a fresh integer.  *)
(* The field timestamp of a message, which no operation reads, is left     *)
(* out.  kind is the result of typeof on the value and jstype the result   *)
(* of typeof / Array.isArray on the fields validateConversationData reads. *)
(***************************************************************************)
Null == "null"

GoodTypes ==
  [id |-> "string", messages |-> "array", totalInputTokens |-> "number",
   totalOutputTokens |-> "number", totalCost |-> "number",
   model |-> "string", startTime |-> "number"]

\* result[key] of a storage read, when the key is absent
Undefined == [kind |-> "undefined"]

\* generateConversationId: conv_<Date.now()>_<random>, which the random
\* part makes a new id at every call: the counter of the calls
generateConversationId(counter, time) == counter

Conversation(id, urlId, model, startTime) ==
  [kind |-> "object", id |-> id, urlId |-> urlId, messages |-> <<>>,
   totalInputTokens |-> 0, totalOutputTokens |-> 0, totalCost |-> 0,
   model |-> model, startTime |-> startTime, jstype |-> GoodTypes]

\* what extractMessageFromElement returns
Message(role, content) == [role |-> role, content |-> content, element |-> "node"]

\* the dedup key of a message
Pair(message) == [role |-> message.role, content |-> message.content]

Pairs(messages) == {Pair(messages[i]) : i \in DOMAIN messages}

\* the copy chrome.storage keeps of a value: a DOM element is stored as {}
CloneMessage(message) == [message EXCEPT !.element = "{}"]

StorageClone(conv) ==
  [conv EXCEPT !.messages = [i \in DOMAIN conv.messages |-> CloneMessage(conv.messages[i])]]

\* a check that does not look at totalCost
validateConversationData_NoCost(data) ==
  /\ data.kind = "object"
  /\ data.jstype.id = "string"
  /\ data.jstype.messages = "array"
  /\ data.jstype.totalInputTokens = "number"
  /\ data.jstype.totalOutputTokens = "number"
  /\ data.jstype.model = "string"
  /\ data.jstype.startTime = "number"

validateConversationData(data) ==
  /\ data.kind = "object"
  /\ data.jstype.id = "string"
  /\ data.jstype.messages = "array"
  /\ data.jstype.totalInputTokens = "number"
  /\ data.jstype.totalOutputTokens = "number"
  /\ data.jstype.totalCost = "number"
  /\ data.jstype.model = "string"
  /\ data.jstype.startTime = "number"

(***************************************************************************)
(* The conversation accumulator                                            *)
(***************************************************************************)
\* a dedup that compares the message objects themselves: two extractions
\* of one element give two objects, so that nothing is ever found
MessageExists_ByIdentity(messages, message) ==
  \E i \in DOMAIN messages : FALSE

\* a dedup that compares the content alone
MessageExists_ContentOnly(messages, message) ==
  \E i \in DOMAIN messages : messages[i].content = message.content

\* currentConversation.messages.some(existing => ...)
MessageExists(messages, message) ==
  \E i \in DOMAIN messages :
    messages[i].content = message.content /\ messages[i].role = message.role

\* a new message whose tokens are added to both totals
AddMessage_BothTotals(conv, message) ==
  LET tokens == encode(message.content, conv.model)
      pushed == [conv EXCEPT !.messages = Append(@, message)]
  IN [pushed EXCEPT !.totalInputTokens = @ + tokens, !.totalOutputTokens = @ + tokens]

\* the body of the forEach of processMessages, for a message that is new
AddMessage(conv, message) ==
  LET tokens == encode(message.content, conv.model)
      pushed == [conv EXCEPT !.messages = Append(@, message)]
  IN IF message.role = "user"
       THEN [pushed EXCEPT !.totalInputTokens = @ + tokens]
     ELSE IF message.role = "assistant"
       THEN [pushed EXCEPT !.totalOutputTokens = @ + tokens]
     ELSE pushed

\* one turn of the forEach of processMessages
ForOneMessage(acc, message) ==
  IF MessageExists(acc.conv.messages, message)
    THEN acc
    ELSE [conv |-> AddMessage(acc.conv, message), hasNewMessages |-> TRUE]

\* the forEach over messages[lo..hi], in order.  The range is halved, and
\* the test on left has the first half evaluated before the second is
\* entered, so that the evaluation of a long batch does not nest deeply.
RECURSIVE ForEachMessage(_, _, _, _)
ForEachMessage(acc, messages, lo, hi) ==
  IF lo > hi THEN acc
  ELSE IF lo = hi THEN ForOneMessage(acc, messages[lo])
  ELSE LET mid == (lo + hi) \div 2
           left == ForEachMessage(acc, messages, lo, mid)
       IN IF Len(left.conv.messages) >= 0
            THEN ForEachMessage(left, messages, mid + 1, hi)
            ELSE left

\* a processMessages that decides on every message against the messages
\* recorded when it is called
processMessages_StartOfCall(conv, messages) ==
  LET new == SelectSeq(messages, LAMBDA m : ~MessageExists(conv.messages, m))
      add[i \in 0..Len(new)] == IF i = 0 THEN conv ELSE AddMessage(add[i - 1], new[i])
      after == add[Len(new)]
  IN IF new # <<>>
       THEN [conv |-> [after EXCEPT !.totalCost =
                         calculateCost(after.totalInputTokens,
                                       after.totalOutputTokens, after.model)],
             hasNewMessages |-> TRUE]
       ELSE [conv |-> conv, hasNewMessages |-> FALSE]

\* a processMessages that updates the cost, saves and notifies at every call
processMessages_Unconditional(conv, messages) ==
  LET acc == ForEachMessage([conv |-> conv, hasNewMessages |-> FALSE],
                            messages, 1, Len(messages))
  IN [conv |-> [acc.conv EXCEPT !.totalCost =
                  calculateCost(acc.conv.totalInputTokens,
                                acc.conv.totalOutputTokens, acc.conv.model)],
      hasNewMessages |-> TRUE]

\* processMessages without its storage write: the conversation it leaves
\* and whether it saw a new message, which is when it saves the
\* conversation, updates the overlay and notifies the popup
processMessages(conv, messages) ==
  LET acc == ForEachMessage([conv |-> conv, hasNewMessages |-> FALSE],
                            messages, 1, Len(messages))
  IN IF acc.hasNewMessages
       THEN [conv |-> [acc.conv EXCEPT !.totalCost =
                         calculateCost(acc.conv.totalInputTokens,
                                       acc.conv.totalOutputTokens, acc.conv.model)],
             hasNewMessages |-> TRUE]
       ELSE acc

CleanupThreshold == 100
CleanupKeep == 50

\* messages.slice(-50) when more than 100 messages are recorded
performMemoryCleanup(conv) ==
  IF Len(conv.messages) > CleanupThreshold
    THEN [conv EXCEPT !.messages =
            SubSeq(@, Max(1, Len(@) - CleanupKeep + 1), Len(@))]
    ELSE conv

\* url.match(/\/c\/([a-zA-Z0-9-]+)/): a URL is the sequence of its path
\* segments; the result is the segment after the first segment "c", or Null
conversationMatch(url) ==
  IF \E i \in 1..(Len(url) - 1) : url[i] = "c"
    THEN url[(CHOOSE i \in 1..(Len(url) - 1) :
                 url[i] = "c" /\ \A j \in 1..(i - 1) : url[j] # "c") + 1]
    ELSE Null

\* a detection without the branch for the home page
BoundaryDetected_NoHome(conv, url) ==
  conversationMatch(url) # Null /\ conversationMatch(url) # conv.urlId

\* does detectNewConversation call startNewConversation
BoundaryDetected(conv, url) ==
  \/ conversationMatch(url) # Null /\ conversationMatch(url) # conv.urlId
  \/ conversationMatch(url) = Null /\ conv.urlId # Null

\* detectCurrentModel: ui is the text of each element matching
\* [class*="model"], [class*="gpt"], in document order
RECURSIVE detectCurrentModel(_, _)
detectCurrentModel(ui, settings) ==
  IF ui = <<>> THEN settings.defaultModel
  ELSE LET model == detectModel(toLowerCase(Head(ui)))
       IN IF model # defaultModel THEN model
          ELSE detectCurrentModel(Tail(ui), settings)

HistoryCap == 100

\* the entry saveConversationToHistory pushes and the splice that follows
HistoryEntry(conv, endTime) ==
  [kind |-> "object", id |-> conv.id, urlId |-> conv.urlId,
   messages |-> conv.messages, totalInputTokens |-> conv.totalInputTokens,
   totalOutputTokens |-> conv.totalOutputTokens, totalCost |-> conv.totalCost,
   model |-> conv.model, startTime |-> conv.startTime, jstype |-> conv.jstype,
   endTime |-> endTime]

\* a splice that removes the newest entries
PushHistory_DropNewest(history, conv, endTime) ==
  LET pushed == Append(history, HistoryEntry(StorageClone(conv), endTime))
  IN IF Len(pushed) > HistoryCap
       THEN SubSeq(pushed, 1, HistoryCap)
       ELSE pushed

PushHistory(history, conv, endTime) ==
  LET pushed == Append(history, HistoryEntry(StorageClone(conv), endTime))
  IN IF Len(pushed) > HistoryCap
       THEN SubSeq(pushed, Len(pushed) - HistoryCap + 1, Len(pushed))
       ELSE pushed


(***************************************************************************)
(* Bounds and the inputs of the model                                      *)
(***************************************************************************)
MaxClosed == 1      \* conversations that a boundary or a reset supersedes
MaxNow == 1         \* the clock stops here
MaxWriteQ == 2      \* storage writes of the current conversation in flight
MaxHistOps == 1     \* saveConversationToHistory calls in flight
MaxTrackers == 3    \* trackers the page runs at the same time
MaxReloads == 1     \* reloads of the page
MaxFailures == 3    \* storage writes that chrome.storage rejects
MaxElapses == 4     \* steps of the clock of the timers
MaxCalls == 3       \* calls of a debounced function
MaxItems == 12      \* items submitted to a batch processor
MaxLogged == 102    \* calls of logError
MaxSeconds == 32    \* seconds of the clock of the initialisation
MaxTextLen == 3     \* characters of the texts enumerated for the tokenizer
MaxTokens == 4      \* token counts enumerated for the cost
MaxBatch == 2       \* messages of the batches enumerated for processMessages
MaxChat == 2        \* entries of the arrays enumerated for encodeChat
MaxFragments == 3   \* fragments of the texts enumerated for detectModel
ScanLen == 101      \* messages on the long page

TextHello == <<"H","e","l","l","o",","," ","w","o","r","l","d","!">>
TextNote == <<"n","o","t","e",":"," ","a","_","b">>
TextLine == <<"l","i","n","e"," ">>

RECURSIVE Digits(_)
Digits(n) ==
  IF n < 10 THEN <<DigitChars[n + 1]>>
  ELSE Digits(n \div 10) \o <<DigitChars[(n % 10) + 1]>>

\* the k-th message of the long page
ScanMessage(k) ==
  Message(IF k % 2 = 1 THEN "user" ELSE "assistant", TextLine \o Digits(k))

LongScan == [k \in 1..ScanLen |-> ScanMessage(k)]

MsgHello == Message("user", TextHello)
MsgEcho == Message("assistant", TextHello)
MsgNote == Message("system", TextNote)

\* the messages a DOM mutation can bring: what extractMessagesFromContainer
\* returns for an added node
Msgs == {MsgHello, MsgEcho, MsgNote}
MutationBatches == {<<m>> : m \in Msgs} \cup {<<MsgEcho, MsgHello, MsgEcho>>}

\* every batch of at most MaxBatch messages, in every order, with
\* repetitions
Batches == UNION {[1..n -> Msgs] : n \in 0..MaxBatch}

\* what extractAllMessages returns when tracking is set up
ExistingPages == {<<>>, <<MsgHello, MsgHello, MsgEcho>>}

Urls == {<<>>, <<"c", "abc">>, <<"c", "xyz">>, <<"g", "abc">>}

UiGpt4o == <<"G","P","T","-","4","o">>
UiGpt4Turbo == <<"G","P","T","-","4"," ","T","u","r","b","o">>
UiChatGPT == <<"C","h","a","t","G","P","T">>

\* the texts of the model indicator elements of the page
UiTexts == {<<>>, <<UiGpt4o>>, <<UiChatGPT, UiGpt4Turbo>>}

\* what the settings read can find under settings.defaultModel
ConfiguredModels == {"gpt-4o", "gpt-3.5-turbo"}

\* the texts handed to encode: every text of at most MaxTextLen characters
\* out of a letter, a special character, a space and a tab, and texts of
\* a long word and a short one with whitespace around and between them
ProbeChars == {"a", "!", " ", "\t"}

LongWord == [i \in 1..10 |-> "a"]

ProbeTexts ==
  UNION {[1..n -> ProbeChars] : n \in 0..MaxTextLen}
    \cup {lead \o LongWord \o gap \o <<"b">> \o trail :
            lead \in {<<>>, <<" ">>},
            gap \in {<<" ">>, <<" ", " ", " ">>, <<"\t", "\n">>},
            trail \in {<<>>, <<" ", " ">>}}
    \cup {TextHello, TextNote}

\* the texts appended to them: non-empty, without whitespace
ProbeSuffixes == {<<"b">>, <<"!">>, <<"?", "!">>}

\* values that are not strings, by their typeof
NonStrings == {[kind |-> k] : k \in {"undefined", "number", "boolean", "object"}}

\* model ids: those of the table, one that is unknown, and one that names
\* a property every object inherits
ProbeModels == ModelIds \cup {"gpt-5", "constructor"}

ProbeTokens == 0..MaxTokens \cup {1000}

\* the fields of a chat message: absent, an empty string, a text
Absent == [kind |-> "undefined"]

Str(text) == [kind |-> "string", text |-> text]

\* the entries of a messages array: null, a string, and objects with and
\* without role, content and name
ChatEntries ==
  {[kind |-> "null"], [kind |-> "string"]}
    \cup {[kind |-> "object", role |-> r, content |-> c, name |-> n] :
            r \in {Absent, Str(<<"u","s","e","r">>)},
            c \in {Absent, Str(TextHello)},
            n \in {Absent, Str(<<>>), Str(<<"b","o","b">>)}}

\* the messages arguments of encodeChat: no array, and the arrays of at
\* most MaxChat entries
ChatArguments ==
  {[kind |-> "undefined"], [kind |-> "null"], [kind |-> "object"]}
    \cup {[kind |-> "array", items |-> items] :
            items \in UNION {[1..n -> ChatEntries] : n \in 0..MaxChat}}

ChatProbes ==
  {[op |-> "encodeChat", messages |-> a, model |-> m, done |-> FALSE, tokens |-> 0] :
     a \in ChatArguments, m \in {"gpt-4o", "gpt-4"}}

\* the texts handed to detectModel: up to MaxFragments pieces of model
\* names, in both cases, in any order
Fragments ==
  {<<"g","p","t","-","4">>, <<"G","P","T","-","4">>, <<"o">>, <<"O"," ">>,
   <<"-","t","u","r","b","o">>, <<" ","T","u","r","b","o">>,
   <<"g","p","t","-","3",".","5">>, <<"x">>}

RECURSIVE Joined(_)
Joined(n) ==
  IF n = 0 THEN {<<>>}
  ELSE Joined(n - 1) \cup {t \o f : t \in Joined(n - 1), f \in Fragments}

DetectTexts == Joined(MaxFragments)

DetectProbes ==
  {[op |-> "detectModel", value |-> v, done |-> FALSE, outcome |-> Returned("none")] :
     v \in {Str(t) : t \in DetectTexts} \cup NonStrings \cup {[kind |-> "null"]}}

\* the calls of the tokenizer that are examined
EncodeProbes ==
  {[op |-> "encode", value |-> [kind |-> "string", text |-> t], suffix |-> sfx,
    model |-> m, done |-> FALSE, tokens |-> 0, appended |-> 0] :
     t \in ProbeTexts, sfx \in ProbeSuffixes, m \in ProbeModels}
    \cup {[op |-> "encode", value |-> v, suffix |-> <<>>,
            model |-> m, done |-> FALSE, tokens |-> 0, appended |-> 0] :
             v \in NonStrings, m \in ProbeModels}

ConfigProbes ==
  {[op |-> "getModelConfig", model |-> m, done |-> FALSE,
    config |-> modelConfigs[defaultModel]] : m \in ProbeModels}

CostProbes ==
  {[op |-> "calculateCost", inputTokens |-> i, outputTokens |-> o, model |-> m,
    done |-> FALSE, cost |-> 0, doubled |-> 0] :
     i \in ProbeTokens, o \in ProbeTokens, m \in ProbeModels}

\* the retention window of performDailyCleanup, 30 * 24 * 60 * 60 * 1000
\* milliseconds.  Time is counted in seconds: the number of milliseconds
\* is beyond the integers of the model checker.
ThirtyDays == 30 * 24 * 60 * 60

\* the entry of the history that an earlier session has left for its
\* k-th conversation, begun at startTime
PastEntry(k, startTime) ==
  HistoryEntry(Conversation(0 - k, Null, "gpt-4o", startTime), startTime)

\* a history of n entries of the last days, the oldest first
Past(n) == [k \in 1..n |-> PastEntry(k, k - n - 1)]

\* a history whose entries are 30 days old, give or take a second
Aged ==
  <<PastEntry(1, 0 - ThirtyDays - 1), PastEntry(2, 0 - ThirtyDays),
    PastEntry(3, 1 - ThirtyDays), PastEntry(4, 0 - 1)>>

\* what can be stored under 'conversationsHistory' when the tracker
\* starts; the import of the options page can store more than HistoryCap
PastHistories == {<<>>, Aged, Past(HistoryCap - 1), Past(HistoryCap + 1)}

\* a conversation an earlier session of the tracker left in storage
OldConversation ==
  StorageClone(processMessages(Conversation(0, "abc", "gpt-4o", 0), <<MsgHello>>).conv)

\* what can be stored under 'currentConversation' when the tracker starts
StoredAtStart ==
  {Undefined,
   [kind |-> "string"],
   OldConversation,
   [OldConversation EXCEPT !.jstype.totalCost = "string"],
   [OldConversation EXCEPT !.jstype.messages = "undefined"]}

(***************************************************************************)
(* State                                                                   *)
(***************************************************************************)
VARIABLES
  pc,                   \* how far init has come
  settings,             \* this.settings
  currentConversation,  \* this.currentConversation
  nextId,               \* the next id generateConversationId returns
  now,                  \* Date.now()
  stored,               \* chrome.storage.local, key currentConversation
  history,              \* chrome.storage.local, key conversationsHistory
  writeQ,               \* values of currentConversation on their way to storage
  histOps,              \* saveConversationToHistory calls that have not finished
  lastCall,             \* history: the batch of the last call of processMessages
  counted,              \* history: pairs whose tokens were added once
  recounted,            \* history: pairs whose tokens were added again
  ingested,             \* history: what was handed to processMessages
  closedIds,            \* history: ids of the conversations superseded
  others,               \* currentConversation of the earlier trackers of the page
  cleanup,              \* performDailyCleanup of the background worker, when it runs
  session,              \* history: the conversation as the last reload found it
  probe,                \* a call of the tokenizer: its arguments and its result
  retry,                \* retryWithBackoff under the key storage_set_local
  limiter,              \* the closure of rateLimit(processMessages, 1000)
  debounced,            \* the closure of debounce(updateLiveTokenCount, 300)
  batcher,              \* the closure of a createBatchProcessor
  errorLog,             \* this.errorLog of the error handler, and how often it logged
  boot                  \* init of the tracker: its attempts and its timers

\* the state of the helpers that wrap functions with timers, of the error
\* log and of the initialisation
utilities == <<limiter, debounced, batcher, errorLog, boot>>

vars == <<pc, settings, currentConversation, nextId, now, stored, history,
          writeQ, histOps, lastCall, counted, recounted, ingested, closedIds,
          others, cleanup, session, probe, retry, limiter, debounced, batcher,
          errorLog, boot>>

\* lastCall.batch is the batch of the last operation of the tracker when
\* that was a call of processMessages by the mutation observer, and n is 2
\* when the call before it had the same batch, else 1; changed is the
\* value of hasNewMessages at the end of the call
NoCall == [batch |-> <<>>, n |-> 0, changed |-> FALSE, overlay |-> FALSE, popup |-> FALSE]

\* this.maxRetries of the error handler
maxRetries == 3

\* no call of retryWithBackoff with the key storage_set_local has been
\* made.  retryAttempts is this.retryAttempts[key], 0 when the key is
\* absent; flying holds, for every storage write of writeQ, the call of
\* retryWithBackoff that awaits it: its attempt, how often it has invoked
\* fn, and whether it has been the only call so far; sleeping holds the
\* calls that await their backoff delay; failures and gaveUp are history:
\* how many attempts have failed, and whether a call has given up, alone
\* or not.
NoRetry ==
  [retryAttempts |-> 0, flying |-> <<>>, sleeping |-> <<>>,
   failures |-> 0, gaveUp |-> "no"]

\* a retryWithBackoff that begins every attempt as the first one
Begin_NoCount(r, invoked, alone) ==
  [r EXCEPT !.retryAttempts = 1,
            !.flying = Append(@, [attempt |-> 1, invoked |-> invoked + 1,
                                  alone |-> alone])]

\* retryWithBackoff, up to its await: the attempt is counted under the key
\* and fn is invoked
Begin(r, invoked, alone) ==
  [r EXCEPT !.retryAttempts = @ + 1,
            !.flying = Append(@, [attempt |-> r.retryAttempts + 1,
                                  invoked |-> invoked + 1, alone |-> alone])]

\* a new call of retryWithBackoff, made while the calls of r are under way
NewCall(r) ==
  LET company == \/ \E i \in DOMAIN r.flying : r.flying[i].attempt > 0
                 \/ r.sleeping # <<>>
      crowded == [r EXCEPT
                    !.flying = [i \in DOMAIN @ |-> [@[i] EXCEPT !.alone = FALSE]],
                    !.sleeping = [i \in DOMAIN @ |-> [@[i] EXCEPT !.alone = FALSE]]]
  IN Begin(crowded, 0, ~company)

\* the conversation object conv is replaced as the current conversation:
\* the calls that sleep with it will write it as it is now
Frozen(r, conv) ==
  [r EXCEPT !.sleeping =
     [i \in DOMAIN @ |-> IF @[i].obj = conv.id
                            THEN [@[i] EXCEPT !.val = StorageClone(conv)]
                            ELSE @[i]]]

\* the delay of rateLimit(this.processMessages.bind(this), 1000), in ms
RateLimitDelay == 1000

\* no timer of setTimeout is pending
NoTimer == [set |-> FALSE, due |-> 0, args |-> <<>>]

\* a timer of setTimeout that is due at the time due and will call with args
Timer(due, args) == [set |-> TRUE, due |-> due, args |-> args]

\* a time that lies more than every delay before the page was opened: the
\* 0 that the closures begin with, seen from a clock that starts at 0
LongAgo == 0 - RateLimitDelay

\* the closure of rateLimit as it is returned: lastCall and timeout are its
\* variables; runs, ranAt and handed are history: how often fn has run,
\* when it ran last, and the messages handed to the wrapper
NoLimiter ==
  [lastCall |-> LongAgo, timeout |-> NoTimer, runs |-> 0, ranAt |-> LongAgo,
   handed |-> {}]

\* the delay of debounce(this.updateLiveTokenCount.bind(this), 300), in ms
DebounceDelay == 300

\* the closure of debounce as it is returned: timeout is its variable; the
\* rest is history: the time and the arguments of the most recent call, the
\* calls since fn ran last, how often fn has run and with which arguments
NoDebounce ==
  [timeout |-> NoTimer, calledAt |-> LongAgo, calledWith |-> <<>>, calls |-> 0,
   burst |-> 0, runs |-> 0, ranWith |-> <<>>]

\* the defaults of createBatchProcessor(processingFunction, batchSize = 10,
\* delay = 100)
BatchSize == 10
BatchDelay == 100

\* the closure of createBatchProcessor as it is returned: batch and
\* timeoutId are its variables (timeoutId is "null" or "id", and timer is
\* the timer of that id while it has neither fired nor been cleared); idle
\* holds the batches handed to requestIdleCallback; the rest is history:
\* the items submitted, when the oldest pending item was submitted, and the
\* items processingFunction has received, in order
NoBatcher ==
  [batch |-> <<>>, timeoutId |-> "null", timer |-> NoTimer, idle |-> <<>>,
   submitted |-> 0, since |-> 0, delivered |-> <<>>]

\* this.maxLogSize of the error handler
maxLogSize == 100

\* the error handler as it is constructed: log is this.errorLog; logged is
\* history: the calls of logError so far
NoErrors == [log |-> <<>>, logged |-> 0]

\* this.maxInitializationAttempts of the tracker
maxInitializationAttempts == 5

\* the tracker as its constructor leaves it: init has counted its first
\* attempt and awaits its loads (stage "running"; "waiting" for the timer
\* of the next attempt, "done", or "critical" after handleCriticalError).
\* timer is the timer of the next attempt, polls holds the time at which
\* each running checkInterval of waitForChatInterface was started, and
\* observers counts the connected MutationObservers of this.observers;
\* failedAt is history: when the last attempt failed
NoBoot ==
  [initializationAttempts |-> 1, stage |-> "running", timer |-> NoTimer,
   polls |-> <<>>, isTracking |-> FALSE, observers |-> 0, failedAt |-> 0]

\* performDailyCleanup is not running
Idle == [st |-> "idle"]

\* the page has not been reloaded
NoSession == [reloads |-> 0]

\* the tokenizer has not been called
NoProbe == [op |-> "none"]

\* nothing handed to processMessages yet; fresh: the conversation began empty
NothingIngested(fresh) ==
  [fresh |-> fresh, pairs |-> {}, duplicate |-> FALSE, input |-> 0, output |-> 0]

\* the state after the constructor, with storage as earlier sessions have
\* left it: one of records under currentConversation and one of pasts
\* under conversationsHistory; the tokenizer is about to serve one of calls
Start(records, pasts, calls) ==
  /\ pc = "loadSettings"
  /\ settings = [defaultModel |-> "unset"]
  /\ currentConversation = Conversation(generateConversationId(1, 0), Null, "gpt-4o", 0)
  /\ nextId = 2
  /\ now = 0
  /\ stored \in records
  /\ history \in pasts
  /\ writeQ = <<>>
  /\ histOps = <<>>
  /\ lastCall = NoCall
  /\ counted = {}
  /\ recounted = {}
  /\ ingested = NothingIngested(TRUE)
  /\ closedIds = {}
  /\ others = <<>>
  /\ cleanup = Idle
  /\ session = NoSession
  /\ probe \in calls
  /\ retry = NoRetry
  /\ limiter = NoLimiter
  /\ debounced = NoDebounce
  /\ batcher = NoBatcher
  /\ errorLog = NoErrors
  /\ boot = NoBoot

Init == Start(StoredAtStart, {<<>>}, {NoProbe})


(***************************************************************************)
(* History variables: they record what happened and steer nothing.         *)
(***************************************************************************)
\* the sum of encode(content, model) over the messages of a role in
\* messages[lo..hi]
RECURSIVE TokensOfRole(_, _, _, _, _)
TokensOfRole(messages, role, model, lo, hi) ==
  IF lo > hi THEN 0
  ELSE IF lo = hi
    THEN (IF messages[lo].role = role THEN encode(messages[lo].content, model) ELSE 0)
  ELSE LET mid == (lo + hi) \div 2
       IN TokensOfRole(messages, role, model, lo, mid)
          + TokensOfRole(messages, role, model, mid + 1, hi)

\* the messages a call has pushed: the recorded sequence only grows at its end
Pushed(before, after) == SubSeq(after.messages, Len(before.messages) + 1, Len(after.messages))

CountedAfter(before, after) == counted \cup Pairs(Pushed(before, after))

RecountedAfter(before, after) ==
  LET pushed == Pushed(before, after)
  IN recounted \cup
     {Pair(pushed[i]) : i \in {j \in DOMAIN pushed :
        \/ Pair(pushed[j]) \in counted
        \/ \E k \in 1..(j - 1) : Pair(pushed[k]) = Pair(pushed[j])}}

\* once a pair has come twice, nothing more is recorded
IngestedAfter(ing, batch, model) ==
  LET duplicate ==
        \/ ing.duplicate
        \/ \E i \in DOMAIN batch : Pair(batch[i]) \in ing.pairs
        \/ \E i, j \in DOMAIN batch : i < j /\ Pair(batch[i]) = Pair(batch[j])
  IN IF duplicate
       THEN [fresh |-> ing.fresh, pairs |-> {}, duplicate |-> TRUE,
             input |-> 0, output |-> 0]
       ELSE [fresh |-> ing.fresh, pairs |-> ing.pairs \cup Pairs(batch),
             duplicate |-> FALSE,
             input |-> ing.input + TokensOfRole(batch, "user", model, 1, Len(batch)),
             output |-> ing.output + TokensOfRole(batch, "assistant", model, 1, Len(batch))]

(***************************************************************************)
(* Actions                                                                 *)
(***************************************************************************)
\* init: loadSettings.  The read finds a configured default model, finds
\* nothing, or fails; in the last two cases the built-in settings are used.
LoadSettings(found) ==
  /\ pc = "loadSettings"
  /\ pc' = "loadConversation"
  /\ settings' = [defaultModel |-> IF found \in {"absent", "failed"} THEN "gpt-4o" ELSE found]
  /\ UNCHANGED <<currentConversation, nextId, now, stored, history, writeQ, histOps,
                 lastCall, counted, recounted, ingested, closedIds, others>>
  /\ UNCHANGED <<cleanup, session, probe, retry>>
  /\ UNCHANGED utilities

\* init: loadCurrentConversation.  readOk: safeStorageOperation('get')
\* resolved; otherwise it has thrown after its retries.
LoadCurrentConversation(readOk) ==
  /\ pc = "loadConversation"
  /\ pc' = "waitInterface"
  /\ lastCall' = NoCall
  /\ IF readOk /\ stored.kind = "undefined"
       THEN UNCHANGED <<currentConversation, nextId, counted, recounted, ingested>>
     ELSE IF readOk /\ validateConversationData(stored)
       THEN /\ currentConversation' = stored
            /\ counted' = Pairs(stored.messages)
            /\ recounted' = {}
            /\ ingested' = NothingIngested(FALSE)
            /\ UNCHANGED nextId
     ELSE /\ currentConversation' = Conversation(generateConversationId(nextId, now),
                                               Null, "gpt-4o", now)
          /\ nextId' = nextId + 1
          /\ counted' = {}
          /\ recounted' = {}
          /\ ingested' = NothingIngested(TRUE)
  /\ UNCHANGED <<settings, now, stored, history, writeQ, histOps, closedIds, others>>
  /\ UNCHANGED <<cleanup, session, probe, retry>>
  /\ UNCHANGED utilities

\* processMessages runs on the messages of batch and saves the
\* conversation when a message was new
Ingest(batch) ==
  /\ pc = "tracking"
  /\ LET r == processMessages(currentConversation, batch)
     IN /\ r.hasNewMessages => Len(writeQ) < MaxWriteQ
        /\ currentConversation' = r.conv
        /\ writeQ' = IF r.hasNewMessages THEN Append(writeQ, StorageClone(r.conv)) ELSE writeQ
        /\ retry' = IF r.hasNewMessages THEN NewCall(retry) ELSE retry
        /\ lastCall' = [batch |-> batch, n |-> IF lastCall.batch = batch THEN 2 ELSE 1,
                        changed |-> r.hasNewMessages,
                        overlay |-> r.hasNewMessages, popup |-> r.hasNewMessages]
        /\ counted' = CountedAfter(currentConversation, r.conv)
        /\ recounted' = RecountedAfter(currentConversation, r.conv)
        /\ ingested' = IngestedAfter(ingested, batch, currentConversation.model)
  /\ UNCHANGED <<pc, settings, nextId, now, stored, history, histOps, closedIds, others>>
  /\ UNCHANGED <<cleanup, session, probe>>

\* a DOM mutation hands a batch of messages to processMessages
ProcessMessages(batch) ==
  /\ Ingest(batch)
  /\ UNCHANGED utilities

\* the memory monitor finds the heap nearly full
PerformMemoryCleanup ==
  /\ pc \in {"waitInterface", "tracking"}
  /\ currentConversation' = performMemoryCleanup(currentConversation)
  /\ lastCall' = NoCall
  /\ UNCHANGED <<pc, settings, nextId, now, stored, history, writeQ, histOps,
                 counted, recounted, ingested, closedIds, others>>
  /\ UNCHANGED <<cleanup, session, probe, retry>>
  /\ UNCHANGED utilities

\* startNewConversation, called when conv is the current conversation,
\* writes and ops are in flight and the calls of tries await them:
\* saveConversationToHistory is started (it stops at its first await), the
\* current conversation is replaced, and the new one is saved
StartNewConversation(conv, writes, tries, urlId, ui) ==
  LET fresh == Conversation(generateConversationId(nextId, now), urlId,
                            detectCurrentModel(ui, settings), now)
  IN /\ Cardinality(closedIds) < MaxClosed
     /\ Len(writes) < MaxWriteQ
     /\ Len(conv.messages) > 0 => Len(histOps) < MaxHistOps
     /\ histOps' = IF Len(conv.messages) > 0
                     THEN Append(histOps, [st |-> "get", val |-> <<>>, read |-> <<>>,
                                           prior |-> StorageClone(conv)])
                     ELSE histOps
     /\ currentConversation' = fresh
     /\ nextId' = nextId + 1
     /\ writeQ' = Append(writes, StorageClone(fresh))
     /\ retry' = NewCall(Frozen(tries, conv))
     /\ closedIds' = closedIds \cup {conv.id}
     /\ counted' = {}
     /\ recounted' = {}
     /\ ingested' = NothingIngested(TRUE)

\* waitForChatInterface has found the page: setupTracking ingests the
\* messages already on the page (processExistingMessages) and then runs
\* detectNewConversation
SetupTracking(existing, url, ui) ==
  /\ pc = "waitInterface"
  /\ pc' = "tracking"
  /\ lastCall' = NoCall
  /\ LET r == processMessages(currentConversation, existing)
         writes == IF r.hasNewMessages THEN Append(writeQ, StorageClone(r.conv)) ELSE writeQ
         tries == IF r.hasNewMessages THEN NewCall(retry) ELSE retry
     IN /\ Len(writes) <= MaxWriteQ
        /\ IF BoundaryDetected(r.conv, url)
             THEN StartNewConversation(r.conv, writes, tries, conversationMatch(url), ui)
             ELSE /\ currentConversation' = r.conv
                  /\ writeQ' = writes
                  /\ retry' = tries
                  /\ counted' = CountedAfter(currentConversation, r.conv)
                  /\ recounted' = RecountedAfter(currentConversation, r.conv)
                  /\ ingested' = IngestedAfter(ingested, existing, currentConversation.model)
                  /\ UNCHANGED <<nextId, histOps, closedIds>>
  /\ UNCHANGED <<settings, now, stored, history, others>>
  /\ UNCHANGED <<cleanup, session, probe>>
  /\ UNCHANGED utilities

\* handleMessage, case 'resetConversation'
ResetConversation(ui) ==
  /\ pc \in {"waitInterface", "tracking"}
  /\ lastCall' = NoCall
  /\ StartNewConversation(currentConversation, writeQ, retry, Null, ui)
  /\ UNCHANGED <<pc, settings, now, stored, history, others>>
  /\ UNCHANGED <<cleanup, session, probe>>
  /\ UNCHANGED utilities

\* saveConversationToHistory resumes after its storage read: it pushes
\* this.currentConversation as it is now and starts the storage write
HistoryContinues ==
  /\ histOps # <<>>
  /\ \E i \in DOMAIN histOps :
       /\ histOps[i].st = "get"
       /\ \A j \in 1..(i - 1) : histOps[j].st = "set"
       /\ histOps' = [histOps EXCEPT ![i].st = "set", ![i].read = history,
                        ![i].val = PushHistory(history, currentConversation, now)]
  /\ UNCHANGED <<pc, settings, currentConversation, nextId, now, stored, history, writeQ,
                 lastCall, counted, recounted, ingested, closedIds, others>>
  /\ UNCHANGED <<cleanup, session, probe, retry>>
  /\ UNCHANGED utilities

\* the storage write of saveConversationToHistory is done
HistoryWritten ==
  /\ histOps # <<>>
  /\ Head(histOps).st = "set"
  /\ history' = Head(histOps).val
  /\ histOps' = Tail(histOps)
  /\ UNCHANGED <<pc, settings, currentConversation, nextId, now, stored, writeQ,
                 lastCall, counted, recounted, ingested, closedIds, others>>
  /\ UNCHANGED <<cleanup, session, probe, retry>>
  /\ UNCHANGED utilities

\* chrome.storage.local applies the oldest write of currentConversation;
\* the call of retryWithBackoff that awaits it, when the page that made it
\* is still there, removes the count of the key and returns
StorageWritten ==
  /\ writeQ # <<>>
  /\ stored' = Head(writeQ)
  /\ writeQ' = Tail(writeQ)
  /\ retry' = LET call == Head(retry.flying)
              IN IF call.attempt = 0
                   THEN [retry EXCEPT !.flying = Tail(@)]
                   ELSE [retry EXCEPT !.retryAttempts = 0, !.flying = Tail(@)]
  /\ UNCHANGED <<pc, settings, currentConversation, nextId, now, history, histOps,
                 lastCall, counted, recounted, ingested, closedIds, others>>
  /\ UNCHANGED <<cleanup, session, probe>>
  /\ UNCHANGED utilities

\* the object a sleeping call will hand to storage.set, as it is now: the
\* conversation of a tracker of the page, or the object as it was left
ObjectNow(call) ==
  IF currentConversation.id = call.obj THEN StorageClone(currentConversation)
  ELSE IF \E i \in DOMAIN others : others[i].id = call.obj
    THEN StorageClone(others[CHOOSE i \in DOMAIN others : others[i].id = call.obj])
  ELSE call.val

\* chrome.storage.local rejects the oldest write (chrome.runtime.lastError):
\* the call of retryWithBackoff gives up when its attempt is the last one,
\* which saveCurrentConversation logs, and sleeps its backoff delay otherwise
StorageFails ==
  /\ writeQ # <<>>
  /\ retry.failures < MaxFailures
  /\ Head(retry.flying).attempt > 0
  /\ writeQ' = Tail(writeQ)
  /\ retry' = LET call == Head(retry.flying)
              IN IF call.attempt >= maxRetries
                   THEN [retry EXCEPT
                           !.retryAttempts = 0,
                           !.flying = Tail(@),
                           !.failures = @ + 1,
                           !.gaveUp = IF call.alone THEN "alone" ELSE "crowded"]
                   ELSE [retry EXCEPT
                           !.flying = Tail(@),
                           !.sleeping = Append(@, [obj |-> Head(writeQ).id,
                                                   val |-> Head(writeQ),
                                                   attempt |-> call.attempt,
                                                   invoked |-> call.invoked,
                                                   alone |-> call.alone]),
                           !.failures = @ + 1]
  /\ UNCHANGED <<pc, settings, currentConversation, nextId, now, stored, history, histOps,
                 lastCall, counted, recounted, ingested, closedIds, others>>
  /\ UNCHANGED <<cleanup, session, probe>>
  /\ UNCHANGED utilities

\* the backoff delay of a sleeping call is over: it logs the retry and
\* calls retryWithBackoff again, which counts the attempt and invokes fn
SleepOver ==
  /\ Len(writeQ) < MaxWriteQ
  /\ \E i \in DOMAIN retry.sleeping :
       LET call == retry.sleeping[i]
           rest == [retry EXCEPT !.sleeping =
                      SubSeq(@, 1, i - 1) \o SubSeq(@, i + 1, Len(@))]
       IN /\ writeQ' = Append(writeQ, ObjectNow(call))
          /\ retry' = Begin(rest, call.invoked, call.alone)
  /\ UNCHANGED <<pc, settings, currentConversation, nextId, now, stored, history, histOps,
                 lastCall, counted, recounted, ingested, closedIds, others>>
  /\ UNCHANGED <<cleanup, session, probe>>
  /\ UNCHANGED utilities

\* time passes
Tick ==
  /\ now < MaxNow
  /\ now' = now + 1
  /\ UNCHANGED <<pc, settings, currentConversation, nextId, stored, history, writeQ,
                 histOps, lastCall, counted, recounted, ingested, closedIds, others>>
  /\ UNCHANGED <<cleanup, session, probe, retry>>
  /\ UNCHANGED utilities

\* the URL of the page has changed: the page observer constructs a new
\* ChatGPTTokenTracker, whose init begins; the tracker that was there is
\* not destroyed and keeps its observers and its conversation
Navigate ==
  /\ pc = "tracking"
  /\ Len(others) < MaxTrackers - 1
  /\ others' = Append(others, currentConversation)
  /\ pc' = "loadSettings"
  /\ settings' = [defaultModel |-> "unset"]
  /\ currentConversation' = Conversation(generateConversationId(nextId, now),
                                          Null, "gpt-4o", now)
  /\ nextId' = nextId + 1
  /\ lastCall' = NoCall
  /\ counted' = {}
  /\ recounted' = {}
  /\ ingested' = NothingIngested(TRUE)
  /\ UNCHANGED <<now, stored, history, writeQ, histOps, closedIds>>
  /\ UNCHANGED <<cleanup, session, probe, retry>>
  /\ UNCHANGED utilities

\* a DOM mutation hands a batch to processMessages of an earlier tracker,
\* which saves its conversation when a message was new
OtherProcessMessages(batch) ==
  /\ \E i \in DOMAIN others :
       LET r == processMessages(others[i], batch)
       IN /\ r.hasNewMessages => Len(writeQ) < MaxWriteQ
          /\ others' = [others EXCEPT ![i] = r.conv]
          /\ writeQ' = IF r.hasNewMessages THEN Append(writeQ, StorageClone(r.conv))
                                           ELSE writeQ
          /\ retry' = IF r.hasNewMessages THEN NewCall(retry) ELSE retry
  /\ UNCHANGED <<pc, settings, currentConversation, nextId, now, stored, history, histOps,
                 lastCall, counted, recounted, ingested, closedIds>>
  /\ UNCHANGED <<cleanup, session, probe>>
  /\ UNCHANGED utilities

\* the page is reloaded: its trackers are gone with their pending
\* continuations, the storage writes already handed to the browser are
\* still applied, and the content script constructs a new tracker, whose
\* init begins.  session keeps the conversation the reload found, the
\* pairs counted in it, and whether its writes had completed.
Reload ==
  /\ pc = "tracking"
  /\ session.reloads < MaxReloads
  /\ session' = [reloads |-> session.reloads + 1, complete |-> writeQ = <<>>,
                 conv |-> currentConversation, seen |-> counted]
  /\ others' = <<>>
  /\ histOps' = SelectSeq(histOps, LAMBDA op : op.st = "set")
  /\ pc' = "loadSettings"
  /\ settings' = [defaultModel |-> "unset"]
  /\ currentConversation' = Conversation(generateConversationId(nextId, now),
                                          Null, "gpt-4o", now)
  /\ nextId' = nextId + 1
  /\ lastCall' = NoCall
  /\ counted' = {}
  /\ recounted' = {}
  /\ ingested' = NothingIngested(TRUE)
  /\ retry' = [NoRetry EXCEPT !.flying =
                 [i \in DOMAIN retry.flying |->
                    [attempt |-> 0, invoked |-> 0, alone |-> FALSE]]]
  /\ UNCHANGED <<now, stored, history, writeQ, closedIds, cleanup, probe>>
  /\ UNCHANGED utilities

\* the alarm dailyCleanup: performDailyCleanup reads the history and
\* filters it; when entries have gone it starts the storage write
DailyCleanupReads ==
  /\ cleanup.st \in {"idle", "done"}
  /\ LET thirtyDaysAgo == now - ThirtyDays
         filteredConversations ==
           SelectSeq(history, LAMBDA conv : conv.startTime > thirtyDaysAgo)
     IN cleanup' = [st |-> IF Len(filteredConversations) # Len(history)
                             THEN "set" ELSE "done",
                    val |-> filteredConversations, read |-> history, at |-> now]
  /\ UNCHANGED <<pc, settings, currentConversation, nextId, now, stored, history, writeQ,
                 histOps, lastCall, counted, recounted, ingested, closedIds, others,
                 session, probe, retry>>
  /\ UNCHANGED utilities

\* the storage write of performDailyCleanup is done
DailyCleanupWritten ==
  /\ cleanup.st = "set"
  /\ history' = cleanup.val
  /\ cleanup' = [cleanup EXCEPT !.st = "done"]
  /\ UNCHANGED <<pc, settings, currentConversation, nextId, now, stored, writeQ,
                 histOps, lastCall, counted, recounted, ingested, closedIds, others,
                 session, probe, retry>>
  /\ UNCHANGED utilities

\* encode is called with the value and the model of the probe, and then
\* with the suffix appended when the value is a text
Encode ==
  /\ probe.op = "encode"
  /\ ~probe.done
  /\ probe' = [probe EXCEPT
       !.done = TRUE,
       !.tokens = encodeValue(probe.value, probe.model),
       !.appended = IF probe.value.kind = "string"
                      THEN encode(probe.value.text \o probe.suffix, probe.model)
                      ELSE 0]
  /\ UNCHANGED <<pc, settings, currentConversation, nextId, now, stored, history, writeQ,
                 histOps, lastCall, counted, recounted, ingested, closedIds, others,
                 cleanup, session, retry>>
  /\ UNCHANGED utilities

\* encodeChat is called with the messages and the model of the probe
EncodeChat ==
  /\ probe.op = "encodeChat"
  /\ ~probe.done
  /\ probe' = [probe EXCEPT !.done = TRUE,
                            !.tokens = encodeChat(probe.messages, probe.model)]
  /\ UNCHANGED <<pc, settings, currentConversation, nextId, now, stored, history, writeQ,
                 histOps, lastCall, counted, recounted, ingested, closedIds, others,
                 cleanup, session, retry>>
  /\ UNCHANGED utilities

\* detectModel is called with the value of the probe
DetectModel ==
  /\ probe.op = "detectModel"
  /\ ~probe.done
  /\ probe' = [probe EXCEPT !.done = TRUE, !.outcome = detectModelValue(probe.value)]
  /\ UNCHANGED <<pc, settings, currentConversation, nextId, now, stored, history, writeQ,
                 histOps, lastCall, counted, recounted, ingested, closedIds, others,
                 cleanup, session, retry>>
  /\ UNCHANGED utilities

\* getModelConfig is called with the model of the probe
GetModelConfig ==
  /\ probe.op = "getModelConfig"
  /\ ~probe.done
  /\ probe' = [probe EXCEPT !.done = TRUE, !.config = getModelConfig(probe.model)]
  /\ UNCHANGED <<pc, settings, currentConversation, nextId, now, stored, history, writeQ,
                 histOps, lastCall, counted, recounted, ingested, closedIds, others,
                 cleanup, session, retry>>
  /\ UNCHANGED utilities

\* calculateCost is called with the token counts and the model of the
\* probe, and then with twice the token counts
CalculateCost ==
  /\ probe.op = "calculateCost"
  /\ ~probe.done
  /\ probe' = [probe EXCEPT
       !.done = TRUE,
       !.cost = calculateCost(probe.inputTokens, probe.outputTokens, probe.model),
       !.doubled = calculateCost(2 * probe.inputTokens, 2 * probe.outputTokens,
                                 probe.model)]
  /\ UNCHANGED <<pc, settings, currentConversation, nextId, now, stored, history, writeQ,
                 histOps, lastCall, counted, recounted, ingested, closedIds, others,
                 cleanup, session, retry>>
  /\ UNCHANGED utilities

(***************************************************************************)
(* Spec: the life of a tracker, from its construction on.                  *)
(***************************************************************************)
Next ==
  \/ \E found \in {"absent", "failed"} \cup ConfiguredModels : LoadSettings(found)
  \/ \E readOk \in BOOLEAN : LoadCurrentConversation(readOk)
  \/ \E existing \in {<<>>, <<MsgHello, MsgEcho>>}, url \in Urls, ui \in UiTexts :
       SetupTracking(existing, url, ui)
  \/ ProcessMessages(<<MsgEcho>>)
  \/ PerformMemoryCleanup
  \/ \E ui \in UiTexts : ResetConversation(ui)
  \/ HistoryContinues
  \/ HistoryWritten
  \/ StorageWritten

Spec == Init /\ [][Next]_vars

(***************************************************************************)
(* SpecIngest: a tracker on the page of one conversation, fed with         *)
(* batches in which messages repeat.                                       *)
(***************************************************************************)
InitIngest ==
  /\ Init
  /\ stored \in {Undefined, OldConversation}

NextIngest ==
  \/ LoadSettings("absent")
  \/ LoadCurrentConversation(TRUE)
  \/ \E existing \in ExistingPages : SetupTracking(existing, <<"c", "abc">>, <<>>)
  \/ \E batch \in MutationBatches : ProcessMessages(batch)
  \/ PerformMemoryCleanup
  \/ StorageWritten
  \/ HistoryContinues
  \/ HistoryWritten

SpecIngest == InitIngest /\ [][NextIngest]_vars

(***************************************************************************)
(* SpecBatch: processMessages with every batch of at most MaxBatch         *)
(* messages, on every conversation that such calls build.                  *)
(***************************************************************************)
InitBatch ==
  /\ Init
  /\ stored \in {Undefined, OldConversation}

NextBatch ==
  \/ LoadSettings("absent")
  \/ LoadCurrentConversation(TRUE)
  \/ SetupTracking(<<>>, <<"c", "abc">>, <<>>)
  \/ \E batch \in Batches : ProcessMessages(batch)

SpecBatch == InitBatch /\ [][NextBatch]_vars

(***************************************************************************)
(* SpecRateLimit: a tracker whose mutation observer hands the messages to  *)
(* the rate-limited processMessages, with timers that can fire late.       *)
(***************************************************************************)
\* the time that passes in one step of the clock, in ms
Step == 500

\* the rate-limited processMessages while the tracker is not touched
TrackerIdle ==
  UNCHANGED <<pc, settings, currentConversation, nextId, now, stored, history, writeQ,
              histOps, lastCall, counted, recounted, ingested, closedIds, others,
              cleanup, session, probe, retry>>

\* processNewMessages has extracted messages from an added node and calls
\* this.rateLimitedProcessMessages: fn runs now when delay ms have passed
\* since lastCall, otherwise the pending timer is cleared and a new one set
ProcessNewMessages(messages) ==
  /\ pc = "tracking"
  /\ Len(messages) > 0
  /\ LET timeSinceLastCall == now - limiter.lastCall
         handed == limiter.handed \cup {messages[i] : i \in DOMAIN messages}
     IN IF timeSinceLastCall >= RateLimitDelay
          THEN /\ Ingest(messages)
               /\ limiter' = [limiter EXCEPT !.lastCall = now, !.runs = @ + 1,
                                             !.ranAt = now, !.handed = handed]
               /\ UNCHANGED <<debounced, batcher, errorLog, boot>>
          ELSE /\ limiter' = [limiter EXCEPT
                                !.timeout = Timer(now + (RateLimitDelay - timeSinceLastCall),
                                                  messages),
                                !.handed = handed]
               /\ TrackerIdle
               /\ UNCHANGED <<debounced, batcher, errorLog, boot>>

\* the timer of the rate limiter fires, at its time or later
RateLimitTimer ==
  /\ limiter.timeout.set
  /\ now >= limiter.timeout.due
  /\ Ingest(limiter.timeout.args)
  /\ limiter' = [limiter EXCEPT !.lastCall = now, !.timeout = NoTimer,
                                !.runs = @ + 1, !.ranAt = now]
  /\ UNCHANGED <<debounced, batcher, errorLog, boot>>

\* time passes for the timers
Elapse ==
  /\ now < MaxElapses * Step
  /\ now' = now + Step
  /\ UNCHANGED <<pc, settings, currentConversation, nextId, stored, history, writeQ,
                 histOps, lastCall, counted, recounted, ingested, closedIds, others,
                 cleanup, session, probe, retry>>
  /\ UNCHANGED utilities

InitRateLimit ==
  /\ Init
  /\ stored = Undefined

NextRateLimit ==
  \/ LoadSettings("absent")
  \/ LoadCurrentConversation(TRUE)
  \/ SetupTracking(<<>>, <<>>, <<>>)
  \/ \E m \in Msgs : ProcessNewMessages(<<m>>)
  \/ RateLimitTimer
  \/ Elapse
  \/ StorageWritten

SpecRateLimit == InitRateLimit /\ [][NextRateLimit]_vars

(***************************************************************************)
(* SpecDebounce: a debounced function, called at any time, with a timer    *)
(* that can fire late.                                                     *)
(***************************************************************************)
\* the arguments of the calls
DebounceArgs == {<<>>, <<"a">>, <<"b">>}

\* a debounce that leaves a pending timer alone
Debounce_KeepPending(d, args, time) ==
  [d EXCEPT !.timeout = IF @.set THEN @ ELSE Timer(time + DebounceDelay, args)]

\* the function debounce returns, called with args at the time time:
\* the pending timer is cleared and a new one is set
Debounce(d, args, time) ==
  [d EXCEPT !.timeout = Timer(time + DebounceDelay, args)]

\* a call of the debounced function (an input, paste or keyup event)
CallDebounced(args) ==
  /\ debounced.calls < MaxCalls
  /\ now + DebounceDelay <= MaxElapses * Step
  /\ debounced' = [Debounce(debounced, args, now) EXCEPT
                     !.calledAt = now, !.calledWith = args,
                     !.calls = @ + 1, !.burst = @ + 1]
  /\ TrackerIdle
  /\ UNCHANGED <<limiter, batcher, errorLog, boot>>

\* the timer of the debounced function fires, at its time or later
DebounceTimer ==
  /\ debounced.timeout.set
  /\ now >= debounced.timeout.due
  /\ debounced' = [debounced EXCEPT !.timeout = NoTimer, !.burst = 0,
                                    !.runs = @ + 1,
                                    !.ranWith = debounced.timeout.args]
  /\ TrackerIdle
  /\ UNCHANGED <<limiter, batcher, errorLog, boot>>

InitDebounce ==
  /\ Init
  /\ stored = Undefined

NextDebounce ==
  \/ \E args \in DebounceArgs : CallDebounced(args)
  \/ DebounceTimer
  \/ Elapse

\* time passes and the timer fires
SpecDebounce ==
  /\ InitDebounce
  /\ [][NextDebounce]_vars
  /\ WF_vars(DebounceTimer)
  /\ WF_vars(Elapse)

(***************************************************************************)
(* SpecBatcher: a batch processor that is handed items at any time.        *)
(***************************************************************************)
\* processBatch: the batch goes to requestIdleCallback
processBatch(b, batch) == [b EXCEPT !.idle = Append(@, batch), !.batch = <<>>]

\* the function createBatchProcessor returns, called with item at the time
\* time
Submit(b, item, time) ==
  LET pushed == [b EXCEPT !.batch = Append(@, item)]
  IN IF Len(pushed.batch) >= BatchSize
       THEN [processBatch(pushed, pushed.batch) EXCEPT
               !.timer = IF b.timeoutId # "null" THEN NoTimer ELSE @]
     ELSE IF b.timeoutId = "null"
       THEN [pushed EXCEPT !.timeoutId = "id",
                           !.timer = Timer(time + BatchDelay, <<>>)]
     ELSE pushed

\* an item is submitted: the items are numbered in the order they arrive
SubmitItem ==
  /\ batcher.submitted < MaxItems
  /\ batcher' = [Submit(batcher, batcher.submitted + 1, now) EXCEPT
                   !.submitted = @ + 1,
                   !.since = IF batcher.batch = <<>> THEN now ELSE @]
  /\ TrackerIdle
  /\ UNCHANGED <<limiter, debounced, errorLog, boot>>

\* the timer of the batch processor fires, at its time or later
BatchTimer ==
  /\ batcher.timer.set
  /\ now >= batcher.timer.due
  /\ batcher' = [(IF Len(batcher.batch) > 0
                     THEN processBatch(batcher, batcher.batch)
                     ELSE batcher) EXCEPT !.timeoutId = "null", !.timer = NoTimer]
  /\ TrackerIdle
  /\ UNCHANGED <<limiter, debounced, errorLog, boot>>

\* the browser is idle: the oldest idle callback runs processingFunction
IdleCallback ==
  /\ batcher.idle # <<>>
  /\ batcher' = [batcher EXCEPT !.idle = Tail(@),
                                !.delivered = @ \o Head(batcher.idle)]
  /\ TrackerIdle
  /\ UNCHANGED <<limiter, debounced, errorLog, boot>>

InitBatcher ==
  /\ Init
  /\ stored = Undefined

NextBatcher ==
  \/ SubmitItem
  \/ BatchTimer
  \/ IdleCallback
  \/ Elapse

SpecBatcher == InitBatcher /\ [][NextBatcher]_vars

(***************************************************************************)
(* SpecLog: the error handler logs one error after the other.              *)
(***************************************************************************)
\* a logError that drops the entry it has just pushed
logError_DropNewest(log, errorEntry) ==
  LET pushed == Append(log, errorEntry)
  IN IF Len(pushed) > maxLogSize THEN SubSeq(pushed, 1, Len(pushed) - 1) ELSE pushed

\* logError: push the entry, and shift when the log has grown over
\* maxLogSize
logError(log, errorEntry) ==
  LET pushed == Append(log, errorEntry)
  IN IF Len(pushed) > maxLogSize THEN Tail(pushed) ELSE pushed

\* a call of logError: the entries are numbered by the calls
LogError(category) ==
  /\ errorLog.logged < MaxLogged
  /\ errorLog' = [log |-> logError(errorLog.log,
                                   [n |-> errorLog.logged + 1, timestamp |-> now,
                                    category |-> category]),
                  logged |-> errorLog.logged + 1]
  /\ TrackerIdle
  /\ UNCHANGED <<limiter, debounced, batcher, boot>>

InitLog ==
  /\ Init
  /\ stored = Undefined

NextLog ==
  \/ LogError("Save Conversation Error")

SpecLog == InitLog /\ [][NextLog]_vars

(***************************************************************************)
(* SpecBoot: init of a tracker on a page without messages, in an extension *)
(* whose context can be invalid, so that chrome.runtime.onMessage fails.   *)
(* The loads of init find nothing in storage and are taken with the run.   *)
(***************************************************************************)
\* the interval of waitForChatInterface and the time after which it is
\* cleared, in ms
PollEvery == 1000
PollFor == 30000

\* the remainder of SubSeq without its i-th element
Without(seq, i) == SubSeq(seq, 1, i - 1) \o SubSeq(seq, i + 1, Len(seq))

\* init, after its loads: waitForChatInterface starts its interval, then
\* addListener either works, and init is done, or throws: the catch logs
\* the error and sets the timer of the next attempt, 2000 ms times the
\* attempts made, or after the last attempt calls handleCriticalError
InitRuns(listenerOk) ==
  /\ boot.stage = "running"
  /\ errorLog.logged < MaxLogged
  /\ LET polling == [boot EXCEPT !.polls = Append(@, now)]
     IN IF listenerOk
          THEN /\ boot' = [polling EXCEPT !.stage = "done"]
               /\ UNCHANGED errorLog
          ELSE /\ errorLog' = [log |-> logError(errorLog.log,
                                     [n |-> errorLog.logged + 1, timestamp |-> now,
                                      category |-> "Initialization Error"]),
                               logged |-> errorLog.logged + 1]
               /\ boot' = IF boot.initializationAttempts < maxInitializationAttempts
                            THEN [polling EXCEPT
                                    !.stage = "waiting",
                                    !.failedAt = now,
                                    !.timer = Timer(now + 2000 * boot.initializationAttempts,
                                                    <<>>)]
                            ELSE [polling EXCEPT
                                    !.stage = "critical",
                                    !.failedAt = now,
                                    !.isTracking = FALSE,
                                    !.observers = 0]
  /\ TrackerIdle
  /\ UNCHANGED <<limiter, debounced, batcher>>

\* the timer of the next attempt fires: init counts
\* the attempt and begins its loads
InitTimer ==
  /\ boot.timer.set
  /\ now >= boot.timer.due
  /\ boot' = [boot EXCEPT !.initializationAttempts = @ + 1, !.stage = "running",
                          !.timer = NoTimer]
  /\ TrackerIdle
  /\ UNCHANGED <<limiter, debounced, batcher, errorLog>>

\* a checkInterval of waitForChatInterface finds the chat container and the
\* input area: it is cleared and setupTracking runs, which sets isTracking
\* and connects the observer of the conversation
PollFinds ==
  /\ \E i \in DOMAIN boot.polls :
       /\ now >= boot.polls[i] + PollEvery
       /\ now < boot.polls[i] + PollFor
       /\ boot' = [boot EXCEPT !.polls = Without(@, i), !.isTracking = TRUE,
                               !.observers = @ + 1]
  /\ TrackerIdle
  /\ UNCHANGED <<limiter, debounced, batcher, errorLog>>

\* a checkInterval is cleared after thirty seconds
PollEnds ==
  /\ \E i \in DOMAIN boot.polls :
       /\ now >= boot.polls[i] + PollFor
       /\ boot' = [boot EXCEPT !.polls = Without(@, i)]
  /\ TrackerIdle
  /\ UNCHANGED <<limiter, debounced, batcher, errorLog>>

\* a second passes, once init has come to its end or to its timer and the
\* timers that are due have fired
ElapseSecond ==
  /\ now < MaxSeconds * 1000
  /\ boot.stage # "running"
  /\ ~(boot.timer.set /\ now >= boot.timer.due)
  /\ \A i \in DOMAIN boot.polls : now < boot.polls[i] + PollFor
  /\ now' = now + 1000
  /\ UNCHANGED <<pc, settings, currentConversation, nextId, stored, history, writeQ,
                 histOps, lastCall, counted, recounted, ingested, closedIds, others,
                 cleanup, session, probe, retry>>
  /\ UNCHANGED utilities

InitBoot ==
  /\ Init
  /\ stored = Undefined

NextBoot ==
  \/ \E listenerOk \in BOOLEAN : InitRuns(listenerOk)
  \/ InitTimer
  \/ PollFinds
  \/ PollEnds
  \/ ElapseSecond

SpecBoot == InitBoot /\ [][NextBoot]_vars

(***************************************************************************)
(* SpecSave: saveCurrentConversation, called on a conversation that passes *)
(* validateConversationData or fails it, with storage that can reject.     *)
(***************************************************************************)
MaxSaves == 2

\* a save that hands the conversation to storage without looking at it
saveCurrentConversation_Unchecked(conv, writes, tries) ==
  [writeQ |-> Append(writes, StorageClone(conv)), retry |-> NewCall(tries),
   logged |-> 0, outcome |-> Returned(Undefined)]

\* saveCurrentConversation, up to its await, with writes in flight and the
\* calls of tries awaiting them: an invalid conversation throws inside the
\* try, the catch logs 'Save Conversation Error', and the call returns
saveCurrentConversation(conv, writes, tries) ==
  IF validateConversationData(conv)
    THEN [writeQ |-> Append(writes, StorageClone(conv)), retry |-> NewCall(tries),
          logged |-> 0, outcome |-> Returned(Undefined)]
    ELSE [writeQ |-> writes, retry |-> tries,
          logged |-> 1, outcome |-> Returned(Undefined)]

\* the conversations the save is called on
SaveConversations ==
  {Conversation(0, Null, "gpt-4o", 0),
   OldConversation,
   [OldConversation EXCEPT !.jstype.totalCost = "string"],
   [OldConversation EXCEPT !.jstype.model = "number"],
   [OldConversation EXCEPT !.jstype.messages = "undefined"]}

SaveProbes ==
  {[op |-> "saveCurrentConversation", conversation |-> c, saves |-> 0, logged |-> 0,
    outcome |-> Null] : c \in SaveConversations}

\* one call of saveCurrentConversation on the conversation of the probe
SaveCurrentConversation ==
  /\ probe.op = "saveCurrentConversation"
  /\ probe.saves < MaxSaves
  /\ Len(writeQ) < MaxWriteQ
  /\ LET r == saveCurrentConversation(probe.conversation, writeQ, retry)
     IN /\ writeQ' = r.writeQ
        /\ retry' = r.retry
        /\ probe' = [probe EXCEPT !.saves = @ + 1, !.logged = @ + r.logged,
                                  !.outcome = r.outcome]
  /\ UNCHANGED <<pc, settings, currentConversation, nextId, now, stored, history,
                 histOps, lastCall, counted, recounted, ingested, closedIds, others>>
  /\ UNCHANGED <<cleanup, session>>
  /\ UNCHANGED utilities

InitSave == Start({Undefined, OldConversation}, {<<>>}, SaveProbes)

NextSave ==
  \/ SaveCurrentConversation
  \/ StorageWritten
  \/ StorageFails
  \/ SleepOver

SpecSave == InitSave /\ [][NextSave]_vars

(***************************************************************************)
(* SpecRetry: a tracker whose storage writes can be rejected.              *)
(***************************************************************************)
InitRetry ==
  /\ Init
  /\ stored = Undefined

NextRetry ==
  \/ LoadSettings("absent")
  \/ LoadCurrentConversation(TRUE)
  \/ SetupTracking(<<>>, <<>>, <<>>)
  \/ ProcessMessages(<<MsgHello>>)
  \/ ResetConversation(<<>>)
  \/ StorageWritten
  \/ StorageFails
  \/ SleepOver

SpecRetry == InitRetry /\ [][NextRetry]_vars

(***************************************************************************)
(* SpecCleanup: a tracker that starts on a page of ScanLen messages, some  *)
(* of which the page shows again later.                                    *)
(***************************************************************************)
InitCleanup ==
  /\ Init
  /\ stored \in {Undefined, OldConversation}

NextCleanup ==
  \/ LoadSettings("absent")
  \/ LoadCurrentConversation(TRUE)
  \/ \E url \in {<<>>, <<"c", "abc">>} : SetupTracking(LongScan, url, <<>>)
  \/ \E m \in {ScanMessage(1), MsgNote} : ProcessMessages(<<m>>)
  \/ PerformMemoryCleanup
  \/ ResetConversation(<<>>)
  \/ StorageWritten
  \/ HistoryContinues
  \/ HistoryWritten

SpecCleanup == InitCleanup /\ [][NextCleanup]_vars

(***************************************************************************)
(* SpecReload: the page of ScanLen messages is reloaded at the same URL.   *)
(***************************************************************************)
InitReload ==
  /\ Init
  /\ stored \in {Undefined, OldConversation}

NextReload ==
  \/ LoadSettings("absent")
  \/ LoadCurrentConversation(TRUE)
  \/ \E url \in {<<>>, <<"c", "abc">>} : SetupTracking(LongScan, url, <<>>)
  \/ ProcessMessages(<<MsgNote>>)
  \/ PerformMemoryCleanup
  \/ Reload
  \/ StorageWritten
  \/ HistoryContinues
  \/ HistoryWritten

SpecReload == InitReload /\ [][NextReload]_vars

(***************************************************************************)
(* SpecHistory: conversations are closed on top of the history that        *)
(* earlier sessions have left, while the background worker cleans it.      *)
(***************************************************************************)
InitHistory == Start({Undefined}, PastHistories, {NoProbe})

NextHistory ==
  \/ LoadSettings("absent")
  \/ LoadCurrentConversation(TRUE)
  \/ SetupTracking(<<MsgHello>>, <<>>, <<>>)
  \/ ResetConversation(<<>>)
  \/ HistoryContinues
  \/ HistoryWritten
  \/ StorageWritten
  \/ DailyCleanupReads
  \/ DailyCleanupWritten
  \/ Tick

SpecHistory == InitHistory /\ [][NextHistory]_vars

(***************************************************************************)
(* SpecTokenizer: one call of the tokenizer, over the calls enumerated.    *)
(***************************************************************************)
InitTokenizer ==
  Start({Undefined}, {<<>>},
        EncodeProbes \cup ConfigProbes \cup CostProbes \cup ChatProbes
          \cup DetectProbes)

NextTokenizer ==
  \/ Encode
  \/ EncodeChat
  \/ DetectModel
  \/ GetModelConfig
  \/ CalculateCost

SpecTokenizer == InitTokenizer /\ [][NextTokenizer]_vars

(***************************************************************************)
(* SpecNavigate: the user moves from the page of one chat to another, so   *)
(* that the page observer constructs a second tracker beside the first.    *)
(***************************************************************************)
InitNavigate ==
  /\ Init
  /\ stored \in {Undefined, OldConversation}

NextNavigate ==
  \/ LoadSettings("absent")
  \/ LoadCurrentConversation(TRUE)
  \/ \E url \in {<<"c", "abc">>, <<"c", "xyz">>} : SetupTracking(<<>>, url, <<>>)
  \/ ProcessMessages(<<MsgHello>>)
  \/ Navigate
  \/ OtherProcessMessages(<<MsgEcho>>)
  \/ StorageWritten
  \/ HistoryContinues
  \/ HistoryWritten
  \/ Tick

SpecNavigate == InitNavigate /\ [][NextNavigate]_vars


(***************************************************************************)
(* Properties                                                              *)
(***************************************************************************)
Recorded(message) == Pair(message) \in Pairs(currentConversation.messages)

Occurrences(message) ==
  Cardinality({i \in DOMAIN currentConversation.messages :
                 Pair(currentConversation.messages[i]) = Pair(message)})

\* the growth of the token totals that the role of a new message asks for
GrowsByRole(before, after, message) ==
  LET tokens == encode(message.content, before.model)
  IN /\ after.totalInputTokens =
          before.totalInputTokens + (IF message.role = "user" THEN tokens ELSE 0)
     /\ after.totalOutputTokens =
          before.totalOutputTokens + (IF message.role = "assistant" THEN tokens ELSE 0)

\* C1: two calls of processMessages in a row with the same single message
\* m: the first call, when m is not recorded yet, records m, reports a
\* change and adds encode(m.content, model) to the total of m's role; the
\* second call reports no change and leaves the conversation as it is.
C1_DedupTwice ==
  [][\A m \in Msgs :
       ProcessMessages(<<m>>) =>
         /\ ~Recorded(m) =>
              /\ lastCall'.changed
              /\ currentConversation'.messages = Append(currentConversation.messages, m)
              /\ GrowsByRole(currentConversation, currentConversation', m)
         /\ lastCall.batch = <<m>> =>
              /\ ~lastCall'.changed
              /\ currentConversation' = currentConversation
              /\ writeQ' = writeQ]_vars

\* the second of two calls with the user message "Hello, world!" has
\* returned, and the conversation holds that message alone, counted once
C1_Witness ==
  /\ lastCall = [batch |-> <<MsgHello>>, n |-> 2, changed |-> FALSE,
                 overlay |-> FALSE, popup |-> FALSE]
  /\ currentConversation.messages = <<MsgHello>>
  /\ currentConversation.totalInputTokens = 4
  /\ currentConversation.totalOutputTokens = 0

\* C2: the tokens of a pair (role, content) are added to the totals of a
\* conversation at most once.
C2_CountedOnce == recounted = {}

\* C3: the totals of the current conversation are the sums of the
\* estimates of its recorded messages, by role, and its cost is the cost
\* of these totals.
C3_TotalsMatchMessages ==
  LET conv == currentConversation
  IN /\ conv.totalInputTokens =
          TokensOfRole(conv.messages, "user", conv.model, 1, Len(conv.messages))
     /\ conv.totalOutputTokens =
          TokensOfRole(conv.messages, "assistant", conv.model, 1, Len(conv.messages))
     /\ conv.totalCost =
          calculateCost(conv.totalInputTokens, conv.totalOutputTokens, conv.model)

\* C4: as long as no pair (role, content) has been handed twice to the
\* processMessages calls on a conversation that began empty, its totals
\* are the sums of the estimates of all the user messages and of all the
\* assistant messages handed over.
C4_Conservation ==
  (ingested.fresh /\ ~ingested.duplicate) =>
     /\ currentConversation.totalInputTokens = ingested.input
     /\ currentConversation.totalOutputTokens = ingested.output

\* a user message and an assistant message of the same text, and a third
\* message, were handed over once each
C4_Witness ==
  /\ ingested.fresh
  /\ ~ingested.duplicate
  /\ ingested.pairs = {Pair(MsgHello), Pair(MsgEcho), Pair(MsgNote)}
  /\ currentConversation.totalInputTokens = 4
  /\ currentConversation.totalOutputTokens = 4

\* the conversation has nothing recorded and nothing counted
IsFresh(conv) ==
  /\ conv.messages = <<>>
  /\ conv.totalInputTokens = 0
  /\ conv.totalOutputTokens = 0
  /\ conv.totalCost = 0

\* C5: the entry that a saveConversationToHistory call appends to the
\* history is the conversation that was current when startNewConversation
\* made the call (its id, messages and totals), with an endTime.
C5_HistoryEntryIsPrior ==
  \A i \in DOMAIN histOps :
    histOps[i].st = "set" =>
      LET entry == histOps[i].val[Len(histOps[i].val)]
          prior == histOps[i].prior
      IN /\ entry.id = prior.id
         /\ entry.messages = prior.messages
         /\ entry.totalInputTokens = prior.totalInputTokens
         /\ entry.totalOutputTokens = prior.totalOutputTokens
         /\ entry.totalCost = prior.totalCost
         /\ entry.endTime \in Nat

\* C6: detectNewConversation, run by setupTracking on the conversation
\* that the scan of the page has left, starts a new conversation exactly
\* when the URL carries a conversation id that differs from urlId, or
\* carries none while urlId is set; otherwise the conversation stays as
\* it is.
C6_BoundaryExactly ==
  [][\A existing \in {<<>>, <<MsgHello, MsgEcho>>}, url \in Urls, ui \in UiTexts :
       SetupTracking(existing, url, ui) =>
         LET scanned == processMessages(currentConversation, existing).conv
             seen == conversationMatch(url)
             boundary == \/ seen # Null /\ seen # scanned.urlId
                         \/ seen = Null /\ scanned.urlId # Null
         IN /\ boundary <=> currentConversation'.id # scanned.id
            /\ boundary => /\ currentConversation'.urlId = seen
                           /\ IsFresh(currentConversation')
            /\ ~boundary => currentConversation' = scanned]_vars

\* the conversation of chat "abc" that storage held was adopted and then
\* superseded on the page of chat "xyz"
C6_Witness ==
  /\ pc = "tracking"
  /\ lastCall = NoCall
  /\ 0 \in closedIds
  /\ currentConversation.urlId = "xyz"
  /\ IsFresh(currentConversation)

\* C7: a conversation that a boundary or a reset has superseded is closed
\* for good: it is never the current conversation again, no call of
\* processMessages changes it, and the conversation that takes its place
\* starts with no messages, zero totals and zero cost.
C7_ClosedForGood ==
  /\ [](currentConversation.id \notin closedIds)
  /\ [][\A i \in DOMAIN others :
          others[i].id \in closedIds => others'[i] = others[i]]_vars
  /\ [][closedIds' # closedIds =>
          /\ closedIds' = closedIds \cup {currentConversation.id}
          /\ currentConversation'.id \notin closedIds'
          /\ IsFresh(currentConversation')]_vars

\* the first model that detectModel names among the texts that hold a
\* marker of a model, or none
RECURSIVE MarkedModel(_)
MarkedModel(ui) ==
  IF ui = <<>> THEN Null
  ELSE LET text == toLowerCase(Head(ui))
       IN IF \E marker \in {Marker4o, Marker4TurboDash, Marker4TurboSpace,
                            Marker4, Marker35, Marker35Turbo} : includes(text, marker)
            THEN detectModel(text)
            ELSE MarkedModel(Tail(ui))

\* C8: the conversation that a reset or a boundary creates has the model
\* that detectModel names in the UI text when that text holds a marker,
\* and settings.defaultModel when it holds none.
C8_ModelFromUi ==
  [][\A ui \in UiTexts :
       (\/ ResetConversation(ui)
        \/ \E existing \in {<<>>, <<MsgHello, MsgEcho>>}, url \in Urls :
             SetupTracking(existing, url, ui) /\ nextId' # nextId) =>
         currentConversation'.model =
           (IF MarkedModel(ui) # Null THEN MarkedModel(ui) ELSE settings.defaultModel)]_vars

\* C9: loadCurrentConversation adopts the stored record when the read
\* succeeds and the record is an object whose seven fields have the types
\* validateConversationData asks for; when the record is invalid or the
\* read fails, the tracker goes on with a fresh conversation of its own,
\* and in every case init goes on.
C9_AdoptOnlyValid ==
  [][\A readOk \in BOOLEAN :
       LoadCurrentConversation(readOk) =>
         LET present == stored.kind # "undefined"
             valid == stored.kind = "object" /\ stored.jstype = GoodTypes
         IN /\ pc' = "waitInterface"
            /\ (readOk /\ valid) => currentConversation' = stored
            /\ (readOk /\ ~present) => currentConversation' = currentConversation
            /\ ~(readOk /\ valid) =>
                 /\ IsFresh(currentConversation')
                 /\ currentConversation'.jstype = GoodTypes
                 /\ stored.kind = "object" => currentConversation'.id # stored.id]_vars

\* init has passed a stored record whose totalCost is not a number, and the
\* tracker holds a fresh conversation of its own
C9_Witness ==
  /\ pc = "waitInterface"
  /\ stored = [OldConversation EXCEPT !.jstype.totalCost = "string"]
  /\ currentConversation.id = 2
  /\ IsFresh(currentConversation)

\* the messages arrays of the values on their way to storage: of the
\* writes of the current conversation and of the entries of the history
\* that is being written
WrittenMessages ==
  {writeQ[i].messages : i \in DOMAIN writeQ}
    \cup UNION {{histOps[i].val[k].messages : k \in DOMAIN histOps[i].val} :
                  i \in {j \in DOMAIN histOps : histOps[j].st = "set"}}

\* C10: no value written to storage holds the text of a message.
C10_NoContentWritten ==
  \A messages \in WrittenMessages :
    \A k \in DOMAIN messages : messages[k].content = <<>>

\* the reload found a conversation with recorded messages, all of whose
\* storage writes had completed
Resumable ==
  /\ session.reloads > 0
  /\ session.complete
  /\ Len(session.conv.messages) > 0

SameSessionData(conv) ==
  /\ conv.id = session.conv.id
  /\ conv.model = session.conv.model
  /\ conv.totalInputTokens = session.conv.totalInputTokens
  /\ conv.totalOutputTokens = session.conv.totalOutputTokens
  /\ conv.totalCost = session.conv.totalCost

\* C11: when the page is reloaded after the storage writes of a
\* conversation have completed, the new tracker resumes the conversation
\* with its id, model, token totals and cost, and its scan of the page at
\* the same URL, which shows messages counted before the reload, leaves
\* these as they are.
C11_SurvivesReload ==
  /\ [][(LoadCurrentConversation(TRUE) /\ Resumable) =>
          SameSessionData(currentConversation')]_vars
  /\ [][\A url \in {<<>>, <<"c", "abc">>} :
          (/\ SetupTracking(LongScan, url, <<>>)
           /\ Resumable
           /\ Pairs(LongScan) \subseteq session.seen
           /\ conversationMatch(url) = session.conv.urlId) =>
            SameSessionData(currentConversation')]_vars

\* C12: when a saveConversationToHistory call has completed, the stored
\* history has at most HistoryCap entries: the entry of the call, which is
\* new and the newest, comes last, and before it come the newest entries
\* of the history that the call read, in their order.
C12_HistoryCapped ==
  [][HistoryWritten =>
       LET read == Head(histOps).read
           n == Len(history')
           kept == n - 1
       IN /\ n <= HistoryCap
          /\ n = (IF Len(read) + 1 > HistoryCap THEN HistoryCap ELSE Len(read) + 1)
          /\ \A i \in 1..kept : history'[i] = read[Len(read) - kept + i]
          /\ \A i \in 1..kept : /\ history'[n].id # history'[i].id
                                /\ history'[n].endTime >= history'[i].endTime]_vars

\* a stored history of HistoryCap + 1 entries has lost its two oldest
\* entries to the entry of the conversation closed now
C12_Witness ==
  /\ Len(history) = HistoryCap
  /\ history[1].id = 0 - 3
  /\ history[HistoryCap - 1].id = 0 - (HistoryCap + 1)
  /\ history[HistoryCap].id > 0
  /\ histOps = <<>>

\* C13: when performDailyCleanup has completed, the stored history has no
\* entry begun more than 30 days before the cleanup, and the entries that
\* the cleanup read and that were begun 30 days before it or later are
\* all there, in their order.
C13_KeepsLastThirtyDays ==
  [][(cleanup'.st = "done" /\ cleanup' # cleanup) =>
       LET at == cleanup'.at
           recent == SelectSeq(cleanup'.read,
                               LAMBDA conv : at - conv.startTime <= ThirtyDays)
       IN /\ \A i \in DOMAIN history' : at - history'[i].startTime <= ThirtyDays
          /\ SelectSeq(history', LAMBDA conv : \E i \in DOMAIN recent : recent[i] = conv)
               = recent]_vars

\* the text of t without its leading and trailing whitespace and with one
\* space for every run of whitespace between two words, position by position
Normalized(t) ==
  LET kept == {i \in DOMAIN t :
                 \/ t[i] \notin Whitespace
                 \/ /\ i > 1
                    /\ t[i - 1] \notin Whitespace
                    /\ \E j \in DOMAIN t : j > i /\ t[j] \notin Whitespace}
      at(k) == CHOOSE i \in kept : Cardinality({j \in kept : j <= i}) = k
  IN [k \in 1..Cardinality(kept) |-> IF t[at(k)] \in Whitespace THEN " " ELSE t[at(k)]]

\* the words of t, counted by their last characters
WordsOf(t) ==
  Cardinality({i \in DOMAIN t :
                 /\ t[i] \notin Whitespace
                 /\ i = Len(t) \/ t[i + 1] \in Whitespace})

\* the characters of t that are neither word characters nor whitespace
SpecialsOf(t) == Cardinality({i \in DOMAIN t : t[i] \notin WordChars \cup Whitespace})

\* the least integer that is not below a / b
CeilOf(a, b) == CHOOSE k \in 0..a : k * b >= a /\ (k - 1) * b < a

\* C14: for a non-empty string and a model of the table, encode returns
\* max(ceil(L / avgCharsPerToken), ceil(W * 1.3) + ceil(S * 0.5)), L, W and
\* S being the length, the word count and the count of special characters
\* of the trimmed, whitespace-collapsed text; "Hello, world!" with gpt-4o
\* gives 4.
C14_EncodeFormula ==
  (probe.op = "encode" /\ probe.done /\ probe.value.kind = "string"
     /\ probe.value.text # <<>> /\ probe.model \in ModelIds) =>
    LET t == probe.value.text
        L == Len(Normalized(t))
        W == WordsOf(t)
        S == SpecialsOf(t)
        byChars == CeilOf(L, modelConfigs[probe.model].avgCharsPerToken)
        byWords == CeilOf(13 * W, 10) + CeilOf(S, 2)
    IN /\ probe.tokens = (IF byChars >= byWords THEN byChars ELSE byWords)
       /\ (t = TextHello /\ probe.model = "gpt-4o") => probe.tokens = 4

\* encode has been called with "Hello, world!" and gpt-4o and has returned 4
C14_Witness ==
  /\ probe.op = "encode"
  /\ probe.done
  /\ probe.value = [kind |-> "string", text |-> TextHello]
  /\ probe.model = "gpt-4o"
  /\ probe.tokens = 4

\* C15: encode returns 0 for the empty string and for an input that is not
\* a string, and a non-negative integer for every string and every model
\* id.
C15_EncodeNonNegative ==
  (probe.op = "encode" /\ probe.done) =>
    /\ (probe.value.kind # "string" \/ probe.value.text = <<>>) => probe.tokens = 0
    /\ probe.tokens \in Nat
    /\ probe.appended \in Nat

\* C16: for a text t and a model of the table, encode returns for t what it
\* returns for t trimmed with every whitespace run collapsed to one space.
C16_WhitespaceInsensitive ==
  (probe.op = "encode" /\ probe.done /\ probe.value.kind = "string"
     /\ probe.model \in ModelIds) =>
    probe.tokens = encode(Normalized(probe.value.text), probe.model)

\* encode has been called with a text of 17 characters whose trimmed,
\* collapsed form has 12, and has returned the 3 tokens of the latter
C16_Witness ==
  /\ probe.op = "encode"
  /\ probe.done
  /\ probe.value.kind = "string"
  /\ probe.value.text = <<" ">> \o LongWord \o <<" ", " ", " ", "b", " ", " ">>
  /\ Len(Normalized(probe.value.text)) = 12
  /\ probe.model = "gpt-4o"
  /\ probe.tokens = 3

\* C17: for a text t, a non-empty string s without whitespace and a model
\* of the table, encode(t + s) is at least encode(t), also when t ends in
\* whitespace or is empty.
C17_Monotone ==
  (probe.op = "encode" /\ probe.done /\ probe.value.kind = "string"
     /\ probe.suffix # <<>> /\ probe.model \in ModelIds) =>
    probe.appended >= probe.tokens

\* encode has been called with a text that ends in whitespace and with that
\* text followed by a suffix, and the second count is the greater one
C17_Witness ==
  /\ probe.op = "encode"
  /\ probe.done
  /\ probe.value = [kind |-> "string", text |-> <<"a", " ">>]
  /\ probe.suffix = <<"b">>
  /\ probe.model \in ModelIds
  /\ probe.tokens = 2
  /\ probe.appended = 3

\* C18: for a model id that is not a key of the pricing table, encode,
\* getModelConfig and calculateCost return what they return for gpt-4o.
C18_FallbackToDefault ==
  (probe.op # "none" /\ probe.done /\ probe.model \notin DOMAIN modelConfigs) =>
    /\ probe.op = "encode" => probe.tokens = encodeValue(probe.value, "gpt-4o")
    /\ probe.op = "getModelConfig" => probe.config = getModelConfig("gpt-4o")
    /\ probe.op = "calculateCost" =>
         probe.cost = calculateCost(probe.inputTokens, probe.outputTokens, "gpt-4o")

\* the prices of the table, in 10^-7 USD for one token
PriceIn(m) ==
  CASE m = "gpt-4" -> 300 [] m = "gpt-4o" -> 50 [] m = "gpt-4-turbo" -> 100
    [] m = "gpt-3.5-turbo" -> 15

PriceOut(m) ==
  CASE m = "gpt-4" -> 600 [] m = "gpt-4o" -> 150 [] m = "gpt-4-turbo" -> 300
    [] m = "gpt-3.5-turbo" -> 20

\* C19: for non-negative token counts and a model of the table,
\* calculateCost(i, o, m) is (i/1000)*costPer1kInput(m) +
\* (o/1000)*costPer1kOutput(m) without rounding, is non-negative, and is 0
\* when i = o = 0.
C19_CostFormula ==
  (probe.op = "calculateCost" /\ probe.done /\ probe.model \in ModelIds) =>
    /\ probe.cost = probe.inputTokens * PriceIn(probe.model)
                      + probe.outputTokens * PriceOut(probe.model)
    /\ probe.cost >= 0
    /\ (probe.inputTokens = 0 /\ probe.outputTokens = 0) => probe.cost = 0

\* calculateCost has been called with 4 input tokens and gpt-4o and has
\* returned 0.00002 USD
C19_Witness ==
  /\ probe.op = "calculateCost"
  /\ probe.done
  /\ probe.inputTokens = 4
  /\ probe.outputTokens = 0
  /\ probe.model = "gpt-4o"
  /\ probe.cost = 200

\* C20: for a model of the table and token counts a and b,
\* calculateCost(2a, 2b, m) is twice calculateCost(a, b, m).
C20_CostDoubles ==
  (probe.op = "calculateCost" /\ probe.done /\ probe.model \in ModelIds) =>
    probe.doubled = 2 * probe.cost

\* calculateCost has been called with 1 and 3 tokens and with 2 and 6
\* tokens, and the second cost is twice the first, which is not 0
C20_Witness ==
  /\ probe.op = "calculateCost"
  /\ probe.done
  /\ probe.inputTokens = 1
  /\ probe.outputTokens = 3
  /\ probe.model = "gpt-4"
  /\ probe.cost = 2100
  /\ probe.doubled = 4200

\* the field f of an entry of a messages array; an entry that is no object
\* has no fields
FieldOf(entry, f) == IF entry.kind = "object" THEN entry[f] ELSE Absent

\* what the entry contributes: 4, the tokens of its role and of its
\* content, and the tokens of its name and 1 when it has a name
EntryShare(entry, model) ==
  4 + encodeValue(FieldOf(entry, "role"), model)
    + encodeValue(FieldOf(entry, "content"), model)
    + (IF FieldOf(entry, "name") # Absent
         THEN encodeValue(FieldOf(entry, "name"), model) + 1 ELSE 0)

RECURSIVE SumShares(_, _)
SumShares(items, model) ==
  IF items = <<>> THEN 0
  ELSE EntryShare(Head(items), model) + SumShares(Tail(items), model)

\* C21: for an array of messages, encodeChat returns 4 + 2 + the sum over
\* every entry of 4 + encode(role) + encode(content) + (encode(name) + 1 if
\* a name is present); each entry, an object or null, contributes the
\* overhead of 4.
C21_ChatFormula ==
  (probe.op = "encodeChat" /\ probe.done /\ probe.messages.kind = "array"
     /\ \A i \in DOMAIN probe.messages.items :
          probe.messages.items[i].kind \in {"object", "null"}) =>
    probe.tokens = 4 + 2 + SumShares(probe.messages.items, probe.model)

\* the lower-case letter of a character
LowerOf(c) ==
  IF \E k \in DOMAIN UpperLetters : UpperLetters[k] = c
    THEN LowerLetters[CHOOSE k \in DOMAIN UpperLetters : UpperLetters[k] = c]
    ELSE c

\* does the marker occur in the text, whatever the case of the text
Occurs(marker, t) ==
  \E start \in 1..Len(t) :
    /\ start + Len(marker) - 1 <= Len(t)
    /\ \A j \in 1..Len(marker) : LowerOf(t[start + j - 1]) = marker[j]

\* C22: detectModel depends on the lower-cased text alone and returns the
\* most specific model whose marker occurs in it: gpt-4o, else gpt-4-turbo
\* (marker gpt-4-turbo or gpt-4 turbo), else gpt-4, else gpt-3.5-turbo, else
\* the default model; a text with a specific and a generic marker never
\* resolves to the generic model.
C22_MostSpecific ==
  (probe.op = "detectModel" /\ probe.done /\ probe.value.kind = "string") =>
    LET t == probe.value.text
        has4o == Occurs(<<"g","p","t","-","4","o">>, t)
        hasTurbo == \/ Occurs(<<"g","p","t","-","4","-","t","u","r","b","o">>, t)
                    \/ Occurs(<<"g","p","t","-","4"," ","t","u","r","b","o">>, t)
        has4 == Occurs(<<"g","p","t","-","4">>, t)
        has35 == Occurs(<<"g","p","t","-","3",".","5">>, t)
    IN /\ ~probe.outcome.threw
       /\ probe.outcome.value =
            (IF has4o THEN "gpt-4o"
             ELSE IF hasTurbo THEN "gpt-4-turbo"
             ELSE IF has4 THEN "gpt-4"
             ELSE IF has35 THEN "gpt-3.5-turbo"
             ELSE "gpt-4o")
       /\ (has4o \/ hasTurbo) => probe.outcome.value # "gpt-4"
       /\ probe.outcome.value = detectModel([i \in DOMAIN t |-> LowerOf(t[i])])

\* detectModel has been called with "GPT-4 Turbo", which holds the marker of
\* gpt-4 too, and has returned gpt-4-turbo
C22_Witness ==
  /\ probe.op = "detectModel"
  /\ probe.done
  /\ probe.value = Str(<<"G","P","T","-","4"," ","T","u","r","b","o">>)
  /\ probe.outcome = Returned("gpt-4-turbo")

\* the array without its entries that are null
NotNull(items) == SelectSeq(items, LAMBDA entry : entry.kind # "null")

\* C23: encode, encodeChat and detectModel raise no exception for a text
\* that is no string, for null or undefined, or for a null message; such an
\* input contributes nothing, and detectModel returns the default model.
C23_InvalidInputIsEmpty ==
  probe.done =>
    /\ (probe.op = "encode" /\ probe.value.kind # "string") => probe.tokens = 0
    /\ (probe.op = "encodeChat" /\ probe.messages.kind # "array") => probe.tokens = 0
    /\ (probe.op = "encodeChat" /\ probe.messages.kind = "array") =>
         probe.tokens = encodeChat([kind |-> "array",
                                    items |-> NotNull(probe.messages.items)],
                                   probe.model)
    /\ (probe.op = "detectModel" /\ probe.value.kind # "string") =>
         probe.outcome = Returned(defaultModel)

\* the conversation after one call of processMessages for every message of
\* the batch, in the order of the batch
RECURSIVE OneByOne(_, _)
OneByOne(conv, batch) ==
  IF batch = <<>> THEN conv
  ELSE OneByOne(processMessages(conv, <<Head(batch)>>).conv, Tail(batch))

\* C24: a call of processMessages with a batch m1..mn leaves the
\* conversation (messages, totals, cost) as n calls with the batches [m1],
\* ..., [mn] in that order leave it, duplicates allowed.
C24_BatchAsSingles ==
  [][LET batch == lastCall'.batch
     IN ProcessMessages(batch) =>
          currentConversation' = OneByOne(currentConversation, batch)]_vars

\* a call with a batch that holds one message twice has recorded it once,
\* after the message that the conversation brought from storage
C24_Witness ==
  /\ lastCall.batch = <<MsgEcho, MsgEcho>>
  /\ lastCall.changed
  /\ currentConversation.messages = <<CloneMessage(MsgHello), MsgEcho>>
  /\ currentConversation.totalInputTokens = 4
  /\ currentConversation.totalOutputTokens = 4

\* C25: a call of processMessages handles the candidates in their order
\* and decides on each against the messages recorded when the call began:
\* a candidate accepted earlier in the call has no part in the decision on
\* a later one.
C25_DecidedAtStart ==
  [][LET batch == lastCall'.batch
     IN ProcessMessages(batch) =>
          currentConversation'.messages =
            currentConversation.messages
              \o SelectSeq(batch, LAMBDA m : ~Recorded(m))]_vars

\* C26: a call of processMessages whose candidates are all recorded, or
\* whose batch is empty, leaves the conversation as it is and issues no
\* storage write, no overlay update and no popup notification.
C26_NothingNewNothingDone ==
  [][LET batch == lastCall'.batch
     IN ((\A i \in DOMAIN batch : Recorded(batch[i])) /\ ProcessMessages(batch)) =>
          /\ currentConversation' = currentConversation
          /\ writeQ' = writeQ
          /\ ~lastCall'.changed
          /\ ~lastCall'.overlay
          /\ ~lastCall'.popup]_vars

\* a call with two recorded messages has returned: the conversation resumed
\* from storage holds one message more than the stored one, and the one
\* write that is pending is the write of the call that recorded it
C26_Witness ==
  /\ lastCall = [batch |-> <<MsgEcho, MsgHello>>, n |-> 1, changed |-> FALSE,
                 overlay |-> FALSE, popup |-> FALSE]
  /\ currentConversation.messages = <<CloneMessage(MsgHello), MsgEcho>>
  /\ stored = OldConversation
  /\ writeQ = <<StorageClone(currentConversation)>>

\* C27: a new message changes the total of its role alone: a user message
\* leaves totalOutputTokens, an assistant message leaves totalInputTokens,
\* and a message of another role is recorded, and a duplicate from then on,
\* while both totals stay.
C27_OnlyOwnTotal ==
  [][\A m \in {n \in Msgs : lastCall'.batch = <<n>>} :
       ProcessMessages(<<m>>) =>
         LET before == currentConversation
             after == currentConversation'
         IN /\ ~Recorded(m) =>
                 /\ after.messages = Append(before.messages, m)
                 /\ m.role = "user" => after.totalOutputTokens = before.totalOutputTokens
                 /\ m.role = "assistant" => after.totalInputTokens = before.totalInputTokens
                 /\ m.role \notin {"user", "assistant"} =>
                      /\ after.totalInputTokens = before.totalInputTokens
                      /\ after.totalOutputTokens = before.totalOutputTokens
            /\ Pair(m) \in Pairs(after.messages)
            /\ Recorded(m) => after = before]_vars

\* a message of the role system has been handed over twice: it is recorded
\* once and has changed no total
C27_Witness ==
  /\ lastCall.batch = <<MsgNote>>
  /\ lastCall.n = 2
  /\ ~lastCall.changed
  /\ currentConversation.messages = <<MsgNote>>
  /\ currentConversation.totalInputTokens = 0
  /\ currentConversation.totalOutputTokens = 0

\* C28: when no storage write has exhausted its retries and every pending
\* write and retry has finished, the record stored under currentConversation
\* is the current conversation of the tracker: same id, same totals.
C28_StoredIsCurrent ==
  (/\ pc = "tracking"
   /\ currentConversation.messages # <<>> \/ closedIds # {}
   /\ writeQ = <<>>
   /\ retry.sleeping = <<>>
   /\ retry.gaveUp = "no") =>
    /\ stored.kind = "object"
    /\ stored.id = currentConversation.id
    /\ stored.totalInputTokens = currentConversation.totalInputTokens
    /\ stored.totalOutputTokens = currentConversation.totalOutputTokens
    /\ stored.totalCost = currentConversation.totalCost

\* C29: a call of saveCurrentConversation on a conversation that fails
\* validateConversationData issues no storage write and begins no retry,
\* leaves the stored record as it was, logs the failure once, and returns
\* without an exception.
C29_InvalidNotSaved ==
  [][(SaveCurrentConversation /\ ~validateConversationData(probe.conversation)) =>
       /\ writeQ' = writeQ
       /\ retry' = retry
       /\ stored' = stored
       /\ probe'.logged = probe.logged + 1
       /\ probe'.outcome = Returned(Undefined)]_vars

\* an invalid conversation has been saved twice: two log entries, nothing
\* in flight, the stored record still the one of the earlier session
C29_Witness ==
  /\ probe.op = "saveCurrentConversation"
  /\ ~validateConversationData(probe.conversation)
  /\ probe.saves = 2
  /\ probe.logged = 2
  /\ probe.outcome = Returned(Undefined)
  /\ writeQ = <<>>
  /\ retry = NoRetry
  /\ stored = OldConversation

\* C30: a call of retryWithBackoff that is the only call of its key invokes
\* fn at most maxRetries times: it returns at the first attempt that
\* succeeds, gives up exactly when its attempt number maxRetries fails, and
\* in both cases leaves no count under the key.
C30_RetryBounded ==
  [][((StorageWritten \/ StorageFails) /\ Head(retry.flying).alone) =>
       LET call == Head(retry.flying)
           away == retry'.flying = <<>> /\ retry'.sleeping = <<>>
       IN /\ call.invoked <= maxRetries
          /\ StorageWritten =>
               /\ away
               /\ stored' = Head(writeQ)
               /\ retry'.retryAttempts = 0
               /\ retry'.gaveUp = retry.gaveUp
          /\ StorageFails =>
               /\ away <=> call.invoked = maxRetries
               /\ away => retry'.retryAttempts = 0 /\ retry'.gaveUp = "alone"
               /\ ~away => /\ retry'.sleeping[1].invoked = call.invoked
                           /\ retry'.gaveUp = retry.gaveUp]_vars

\* a call that was the only one has given up after maxRetries rejected
\* attempts, and the key has no count
C30_Witness ==
  /\ retry.gaveUp = "alone"
  /\ retry.failures = maxRetries
  /\ retry.retryAttempts = 0
  /\ retry.flying = <<>>
  /\ retry.sleeping = <<>>
  /\ writeQ = <<>>

\* C31: a call of retryWithBackoff that shares its key with another call in
\* flight invokes its own fn at most maxRetries times and gives up only
\* when its own fn has failed maxRetries times.
C31_SharedKeyBounded ==
  [][((StorageWritten \/ StorageFails)
        /\ Head(retry.flying).attempt > 0 /\ ~Head(retry.flying).alone) =>
       LET call == Head(retry.flying)
           givesUp == StorageFails /\ Len(retry'.sleeping) = Len(retry.sleeping)
       IN /\ call.invoked <= maxRetries
          /\ givesUp => call.invoked = maxRetries]_vars

\* C32: two executions of the function that rateLimit wraps are at least
\* delay ms apart.
C32_ExecutionsApart ==
  [][(limiter'.runs > limiter.runs /\ limiter.runs > 0) =>
       now' - limiter.ranAt >= RateLimitDelay]_vars

\* C33: no batch handed to the rate-limited processMessages is lost: once
\* no call of it is pending, every message handed to it is in the current
\* conversation.
C33_HandedIsIngested ==
  ~limiter.timeout.set =>
    \A m \in limiter.handed :
      \E i \in DOMAIN currentConversation.messages :
        /\ currentConversation.messages[i].role = m.role
        /\ currentConversation.messages[i].content = m.content

\* C34: the function that debounce wraps runs only when delay ms have
\* passed since the most recent call, with the arguments of that call, once
\* for the calls made since it ran last, and after every call it does run.
C34_DebounceOncePerBurst ==
  /\ [][DebounceTimer =>
          /\ now - debounced.calledAt >= DebounceDelay
          /\ debounced'.ranWith = debounced.calledWith
          /\ debounced.burst >= 1]_vars
  /\ (debounced.burst > 0) ~> (debounced.burst = 0)

\* three calls in two bursts: the function has run twice, the second time
\* with the arguments of the last call
C34_Witness ==
  /\ debounced.calls = 3
  /\ debounced.runs = 2
  /\ debounced.burst = 0
  /\ debounced.ranWith = debounced.calledWith
  /\ debounced.ranWith = <<"b">>

\* C35: when setupTracking runs on a page whose URL names a conversation
\* other than the one loaded from storage, the messages already on the page
\* are counted in the conversation that is opened, and the loaded
\* conversation is closed as it was loaded.
C35_ExistingGoToNew ==
  [][\A existing \in {<<>>, <<MsgHello, MsgEcho>>}, url \in Urls, ui \in UiTexts :
       (/\ SetupTracking(existing, url, ui)
        /\ currentConversation = stored
        /\ conversationMatch(url) # Null
        /\ conversationMatch(url) # currentConversation.urlId) =>
         /\ currentConversation'.id # currentConversation.id
         /\ \A i \in DOMAIN existing :
              Pair(existing[i]) \in Pairs(currentConversation'.messages)
         /\ histOps' # histOps =>
              histOps'[Len(histOps')].prior = StorageClone(currentConversation)]_vars

\* C36: once a URL change has created a new tracker, the trackers created
\* before it ingest no message and write nothing: their conversations stay
\* as they are, and every write of currentConversation that is issued is of
\* the conversation of the newest tracker.
C36_OneTrackerAtWork ==
  [][/\ \A i \in DOMAIN others : others'[i] = others[i]
     /\ Len(writeQ') > Len(writeQ) =>
          writeQ'[Len(writeQ')].id = currentConversation'.id]_vars

\* C37: an entry of the stored history stays there until the cap of
\* HistoryCap entries or the cleanup of entries older than thirty days
\* evicts it: a write of saveConversationToHistory drops an entry only when
\* the history is full, and a write of performDailyCleanup only when the
\* entry was thirty days old when the cleanup ran.
C37_NoLostHistoryEntry ==
  [][\A i \in DOMAIN history :
       \/ \E j \in DOMAIN history' : history'[j] = history[i]
       \/ HistoryWritten /\ Len(history) >= HistoryCap
       \/ DailyCleanupWritten /\ cleanup.at - history[i].startTime >= ThirtyDays]_vars

\* C38: the items handed to a batch processor reach processingFunction
\* once each and in the order they arrived, and no item stays pending
\* forever: while items are pending, a timer is set that is due at most
\* delay ms after the oldest of them was submitted.
C38_BatchDelivers ==
  /\ batcher.delivered = [i \in 1..Len(batcher.delivered) |-> i]
  /\ Len(batcher.batch) < BatchSize
  /\ batcher.batch # <<>> =>
       /\ batcher.timer.set
       /\ batcher.timer.due <= batcher.since + BatchDelay

\* C39: errorLog holds at most maxLogSize entries, and they are the most
\* recent calls of logError in the order of the calls.
C39_LogKeepsNewest ==
  /\ Len(errorLog.log) <= maxLogSize
  /\ Len(errorLog.log) = (IF errorLog.logged < maxLogSize THEN errorLog.logged
                                                         ELSE maxLogSize)
  /\ \A i \in DOMAIN errorLog.log :
       errorLog.log[i].n = errorLog.logged - Len(errorLog.log) + i

\* two entries have been dropped: the log is full and begins with the
\* third call
C39_Witness ==
  /\ errorLog.logged = maxLogSize + 2
  /\ Len(errorLog.log) = maxLogSize
  /\ errorLog.log[1].n = 3
  /\ errorLog.log[maxLogSize].n = maxLogSize + 2

\* C40: init runs at most maxInitializationAttempts times, the attempt
\* after the n-th failed one is set for 2000 * n ms after that failure, and
\* once handleCriticalError has run after the last failure the tracker does
\* not track, has no connected observer and no init is scheduled.
C40_InitGivesUp ==
  /\ boot.initializationAttempts <= maxInitializationAttempts
  /\ boot.timer.set =>
       /\ boot.initializationAttempts < maxInitializationAttempts
       /\ boot.timer.due = boot.failedAt + 2000 * boot.initializationAttempts
  /\ boot.stage = "critical" =>
       /\ boot.initializationAttempts = maxInitializationAttempts
       /\ ~boot.timer.set
       /\ ~boot.isTracking
       /\ boot.observers = 0

====
